---- MODULE Spec2Model ----
(***************************************************************************)
(* Model of epimysium: the RRA task-weight selection loop                  *)
(* (epimysium/rra.py, select_rra_task_weights and its helpers), the        *)
(* storage-file reader (epimysium/dataman.py, storage2numpy), the copy of  *)
(* the inputs of a CMC run (epimysium/dataman.py, copy_cmc_inputs) and the *)
(* experiment directories (perimysium/experiment.py).                      *)
(*                                                                         *)
(* Numbers.  Python floats are modelled as exact rationals <<n, d>> kept   *)
(* in lowest terms with d > 0.  Raw entries of an error table are integers *)
(* counting thousandths (of a metre or of a radian).  np.rad2deg is the    *)
(* multiplication by 180/pi, with pi taken as 355/113, i.e. by 4068/71.    *)
(* The text of a <weight> element is modelled as the integer number of     *)
(* millionths it denotes ('%f' prints six decimals).                       *)
(*                                                                         *)
(* Text.  A line of a storage file is its non-empty sequence of            *)
(* whitespace-separated tokens (blank lines are not modelled); a token is  *)
(* a string.  A path, and the text of an XML element, is a sequence of     *)
(* tokens: " ", "/", "\\" and names that hold none of these.               *)
(*                                                                         *)
(* Files.  A file system is a set of [path, content] records and a set of  *)
(* directories, the paths normalised; an XML document is the sequence of   *)
(* its elements [tag, text] in document order.                             *)
(***************************************************************************)
EXTENDS Integers, Sequences, FiniteSets, TLC

VARIABLES
    pc,                   \* position in select_rra_task_weights
    exc,                  \* exception that ended the call, "none" if none
    task_names,           \* argument task_names: None or a list of names
    task_name_regex_omit, \* argument: NoRegex or an alternation of literals
    min_max_err,          \* argument (rational)
    max_max_err,          \* argument (rational)
    tasks_file,           \* the tasks XML file: its CMC_Joint elements
    pErr_file,            \* the <name>_pErr.sto file: NoFile or File(lines)
    task_weights,         \* local task_weights (list of rationals)
    pErr,                 \* local pErr, the table read last
    maxerr,               \* local maxerr
    minerr,               \* local minerr
    iter_count,           \* local iter_count
    icol,                 \* position of the for loop over pErr.dtype.names
    rra_status,           \* exit status of the last subprocess.call
    effects,              \* side effects so far, in order
    rra_setup,            \* the RRA setup document at setup_fpath
    tasks_fpath,          \* local tasks_fpath
    pErr_fname,           \* local pErr_fname
    ex_call,              \* a call of experiment(): arguments, position
    ex_dest,              \* the directory parent_dir/name and its files
    sto_file,             \* storage2numpy: lines of the file given
    sto_pc,               \* storage2numpy: "call" or "returned"
    sto_data,             \* storage2numpy: its outcome
    wt_pc,                \* weight file written and read back: position
    wt_task_weights,      \* argument task_weights of the write
    wt_task_names,        \* argument task_names of the write and the read
    wt_do_round,          \* argument do_round of the write
    wt_before,            \* the tasks file before the write
    wt_file,              \* the tasks file
    wt_read,              \* outcome of task_weights_from_file
    cc_files,             \* file system: the set of [path, content]
    cc_dirs,              \* file system: the directories
    cc_calls              \* per call of copy_cmc_inputs: arguments, locals

vars == <<pc, exc, task_names, task_name_regex_omit, min_max_err, max_max_err,
          tasks_file, pErr_file, task_weights, pErr, maxerr, minerr,
          iter_count, icol, rra_status, effects, sto_file, sto_pc, sto_data,
          wt_pc, wt_task_weights, wt_task_names, wt_do_round, wt_before,
          wt_file, wt_read, cc_files, cc_dirs, cc_calls, rra_setup,
          tasks_fpath, pErr_fname, ex_call, ex_dest>>

rraVars == <<pc, exc, task_names, task_name_regex_omit, min_max_err,
             max_max_err, tasks_file, pErr_file, task_weights, pErr, maxerr,
             minerr, iter_count, icol, rra_status, effects, rra_setup,
             tasks_fpath, pErr_fname>>

stoVars == <<sto_file, sto_pc, sto_data>>

wtVars == <<wt_pc, wt_task_weights, wt_task_names, wt_do_round, wt_before,
            wt_file, wt_read>>

\* what a call of select_rra_task_weights leaves alone
ccVars == <<cc_files, cc_dirs, cc_calls>>

\* set from the setup document in lines 136-160 and left alone after
lookupVars == <<rra_setup, tasks_fpath, pErr_fname>>

exVars == <<ex_call, ex_dest>>

restVars == <<stoVars, wtVars, ccVars, lookupVars, exVars>>

\* task_names=None: the list-typed argument left at its default
None == <<"None">>
\* task_name_regex_omit=None (or ''): what `if task_name_regex_omit:` skips
NoRegex == <<>>
\* a path at which no file exists, and a file with the given lines
NoFile == [exists |-> FALSE, lines |-> <<>>]
File(lines) == [exists |-> TRUE, lines |-> lines]

(***************************************************************************)
(* Bounds of the model.                                                    *)
(***************************************************************************)
MaxNames == 3     \* longest task_names list given by the caller
MaxRows == 2      \* most data rows of an error table
MaxLines == 4     \* most lines of a file given to storage2numpy
MaxIter == 2      \* most iterations of the while loop the model follows

(***************************************************************************)
(* Rational arithmetic standing for Python float arithmetic.               *)
(***************************************************************************)
Abs(i) == IF i < 0 THEN -i ELSE i

RECURSIVE Gcd(_, _)
Gcd(a, b) == IF b = 0 THEN a ELSE Gcd(b, a % b)

Rat(n, d) ==
    LET s == IF d < 0 THEN -1 ELSE 1
        g == Gcd(Abs(n), Abs(d))
    IN  <<(s * n) \div g, (s * d) \div g>>

RAdd(a, b) == Rat(a[1] * b[2] + b[1] * a[2], a[2] * b[2])
RNeg(a) == <<-a[1], a[2]>>
RSub(a, b) == RAdd(a, RNeg(b))
RMul(a, b) == Rat(a[1] * b[1], a[2] * b[2])
RAbs(a) == <<Abs(a[1]), a[2]>>
RLess(a, b) == a[1] * b[2] < b[1] * a[2]

\* np.inf and -np.inf: the comparisons by cross-multiplication order them
\* above and below every rational
PosInf == <<1, 0>>
NegInf == <<-1, 0>>
Greater(a, b) == RLess(b, a)

(***************************************************************************)
(* Strings.  str.startswith and re.match against an alternation of         *)
(* literal prefixes; Tails are the remainders a modelled name can have     *)
(* after a prefix.                                                         *)
(***************************************************************************)
Tails == {"", "x", "_flex_r", "_flex_l"}

StartsWith(s, prefix) == \E t \in Tails : prefix \o t = s

\* re.match(regex, name): the regex is an alternation lit1|lit2|...
ReMatch(regex, name) == \E i \in 1..Len(regex) : StartsWith(name, regex[i])

IndexOf(seq, x) == CHOOSE i \in 1..Len(seq) : seq[i] = x /\ \A j \in 1..(i - 1) : seq[j] /= x

InSeq(seq, x) == \E i \in 1..Len(seq) : seq[i] = x

RemoveAt(seq, i) == SubSeq(seq, 1, i - 1) \o SubSeq(seq, i + 1, Len(seq))

\* list.remove(x): removes the first occurrence
ListRemove(seq, x) == RemoveAt(seq, IndexOf(seq, x))

(***************************************************************************)
(* dataman.storage2numpy                                                   *)
(***************************************************************************)
Sentinel == "endheader"

\* what may stand before or after the sentinel inside one token
Affixes == {"", "_", ";"}

\* line.count('endheader') != 0: some token of the line contains it
HasSentinel(line) ==
    \E i \in 1..Len(line) :
        \E a \in Affixes, b \in Affixes : a \o Sentinel \o b = line[i]

\* the decimal texts the modelled files hold, with the number each denotes
\* (in thousandths)
Numerals == {<<"0.002", 2>>, <<"0.012", 12>>, <<"-0.020", -20>>,
             <<"0.030", 30>>, <<"0.000", 0>>}

NaN == "nan"

IsNumeral(tok) == \E p \in Numerals : p[1] = tok

\* genfromtxt's conversion of one field to a float
ToFloat(tok) ==
    IF IsNumeral(tok) THEN (CHOOSE p \in Numerals : p[1] = tok)[2] ELSE NaN

\* np.genfromtxt(file, names=True, skip_header=skip)
GenFromTxt(lines, skip) ==
    IF Len(lines) <= skip
    THEN [exc |-> "StopIteration", names |-> <<>>, rows |-> <<>>]
    ELSE LET names == lines[skip + 1]
             body == SubSeq(lines, skip + 2, Len(lines))
         IN  IF \E j \in 1..Len(body) : Len(body[j]) /= Len(names)
             THEN [exc |-> "ValueError", names |-> <<>>, rows |-> <<>>]
             ELSE [exc |-> "none",
                   names |-> names,
                   rows |-> [j \in 1..Len(body) |->
                                [c \in 1..Len(names) |-> ToFloat(body[j][c])]]]

\* for i, line in enumerate(f): the index i of the first line holding the
\* sentinel (the first line has index 0), -1 when no line holds it
RECURSIVE FirstSentinelIndex(_, _)
FirstSentinelIndex(lines, i) ==
    IF i >= Len(lines) THEN -1
    ELSE IF HasSentinel(lines[i + 1]) THEN i
    ELSE FirstSentinelIndex(lines, i + 1)

SkipHeaderOffByOne(i) == i

\* line_number_of_line_containing_endheader = i + 1
SkipHeader(i) == i + 1

Storage2NumpyWholeFile(lines) ==
    LET i == FirstSentinelIndex(lines, 0)
    IN  GenFromTxt(lines, IF i = -1 THEN 0 ELSE SkipHeader(i))

Storage2Numpy(lines) ==
    LET i == FirstSentinelIndex(lines, 0)
    IN  IF i = -1
        THEN \* the name is unbound where genfromtxt is called
             [exc |-> "UnboundLocalError", names |-> <<>>, rows |-> <<>>]
        ELSE GenFromTxt(lines, SkipHeader(i))

\* The lines storage2numpy is tried on.
HeaderLine == <<"version=1">>
SentinelLine == <<"endheader">>
NamesLine == <<"time", "pelvis_tx", "arm_flex_r">>

StoLineKinds == {HeaderLine, SentinelLine, <<"_endheader;">>, NamesLine,
                 <<"0.000", "0.002", "0.030">>, <<"0.000", "-0.020", "0.012">>}

RECURSIVE SeqsUpTo(_, _)
SeqsUpTo(S, n) ==
    IF n = 0 THEN {<<>>}
    ELSE LET shorter == SeqsUpTo(S, n - 1)
         IN  shorter \cup {Append(q, x) : q \in shorter, x \in S}

StoFiles == SeqsUpTo(StoLineKinds, MaxLines) \ {<<>>}

StoInit ==
    /\ sto_file \in StoFiles
    /\ sto_pc = "call"
    /\ sto_data = [exc |-> "none", names |-> <<>>, rows |-> <<>>]

\* data = storage2numpy(storage_file)
StoCall ==
    /\ sto_pc = "call"
    /\ sto_data' = Storage2Numpy(sto_file)
    /\ sto_pc' = "returned"
    /\ UNCHANGED sto_file

StoIdle ==
    /\ sto_file = <<>>
    /\ sto_pc = "idle"
    /\ sto_data = [exc |-> "none", names |-> <<>>, rows |-> <<>>]


(***************************************************************************)
(* rra.py: the tasks file                                                  *)
(*                                                                         *)
(* The tasks file is the sequence of its CMC_Joint elements in document    *)
(* order, each [section, name, weight]: section is "defaults" or           *)
(* "objects", weight is the text of <weight> as a count of millionths.     *)
(***************************************************************************)
\* float(text) of a weight text
FloatOfText(micro) == Rat(micro, 1000000)

\* the six decimals of r / d, most significant first, as <<number, remainder>>
RECURSIVE FracDigits(_, _, _, _)
FracDigits(r, d, k, acc) ==
    IF k = 0 THEN <<acc, r>>
    ELSE FracDigits((r * 10) % d, d, k - 1, acc * 10 + ((r * 10) \div d))

\* six decimals cut off, not rounded
FormatFTruncated(w) ==
    LET n == Abs(w[1])
        d == w[2]
        micro == (n \div d) * 1000000 + FracDigits(n % d, d, 6, 0)[1]
    IN  IF w[1] < 0 THEN -micro ELSE micro

\* '%f' % w: w printed with six decimals, rounded to nearest (ties to even)
FormatF(w) ==
    LET n == Abs(w[1])
        d == w[2]
        fd == FracDigits(n % d, d, 6, 0)
        up == IF 2 * fd[2] > d \/ (2 * fd[2] = d /\ fd[1] % 2 = 1) THEN 1 ELSE 0
        micro == (n \div d) * 1000000 + fd[1] + up
    IN  IF w[1] < 0 THEN -micro ELSE micro

\* file_weights[name] after the first loop of task_weights_from_file:
\* the weight of the last CMC_Joint element of that name
HasTask(file, name) == \E i \in 1..Len(file) : file[i].name = name

FileWeight(file, name) ==
    LET last == CHOOSE i \in 1..Len(file) :
                    /\ file[i].name = name
                    /\ \A j \in (i + 1)..Len(file) : file[j].name /= name
    IN  FloatOfText(file[last].weight)

\* task_weights_from_file(fpath, task_names)
TaskWeightsFromFile(file, names) ==
    IF \E i \in 1..Len(names) : ~HasTask(file, names[i])
    THEN [exc |-> "KeyError", weights |-> <<>>]
    ELSE [exc |-> "none",
          weights |-> [i \in 1..Len(names) |-> FileWeight(file, names[i])]]

\* task_weights_from_file(tasks_fpath), the call of line 231: the function
\* has two required parameters and is given one
TaskWeightsFromFileOneArgument(file) ==
    [exc |-> "TypeError", weights |-> <<>>]

\* '%i' % w: the integer part of w (truncation towards zero); the text
\* 'k' is held as the k * 1000000 millionths it denotes
FormatI(w) ==
    LET micro == (Abs(w[1]) \div w[2]) * 1000000
    IN  IF w[1] < 0 THEN -micro ELSE micro

\* format_str % w
Format(do_round, w) == IF do_round THEN FormatI(w) ELSE FormatF(w)

\* every CMC_Joint of the file looked at, those of the defaults included
WriteTaskWeightsEverySection(weights, file, names, do_round) ==
    [i \in 1..Len(file) |->
        IF InSeq(names, file[i].name)
        THEN [file[i] EXCEPT !.weight =
                 Format(do_round, weights[IndexOf(names, file[i].name)])]
        ELSE file[i]]

\* write_task_weights_to_file(task_weights, tasks_fpath, task_names, do_round)
WriteTaskWeightsDoRound(weights, file, names, do_round) ==
    [i \in 1..Len(file) |->
        IF file[i].section = "objects" /\ InSeq(names, file[i].name)
        THEN [file[i] EXCEPT !.weight =
                 Format(do_round, weights[IndexOf(names, file[i].name)])]
        ELSE file[i]]

\* write_task_weights_to_file(task_weights, tasks_fpath, task_names)
WriteTaskWeightsToFile(weights, file, names) ==
    WriteTaskWeightsDoRound(weights, file, names, FALSE)

\* all_task_names(tasks_fpath): the body reads cmcts, a name bound neither
\* in the function nor in the module
AllTaskNames(file) == [exc |-> "NameError", names |-> <<>>]

(***************************************************************************)
(* rra.py: peak errors                                                     *)
(***************************************************************************)
Max(S) == CHOOSE x \in S : \A y \in S : y <= x

\* np.max(np.abs(pErr[colname])), in thousandths
PeakAbs(table, colname) ==
    LET c == IndexOf(table.names, colname)
    IN  Max({Abs(table.rows[j][c]) : j \in 1..Len(table.rows)})

\* np.rad2deg(x)
Rad2Deg(x) == RMul(x, <<4068, 71>>)

\* the conversion with the pelvis_t case left out
ThisErrNoPelvisCase(table, colname) ==
    Rad2Deg(Rat(PeakAbs(table, colname), 1000))

\* lines 197-200 (and 56-59, 70-73): the peak error of a column in the
\* loop's units
ThisErr(table, colname) ==
    IF StartsWith(colname, "pelvis_t")
    THEN RMul(<<100, 1>>, Rat(PeakAbs(table, colname), 1000))
    ELSE Rad2Deg(Rat(PeakAbs(table, colname), 1000))

\* the for loop of max_error from column i on; best is <<maxerr, max_colname>>
RECURSIVE MaxErrorLoop(_, _, _, _)
MaxErrorLoop(table, names, i, best) ==
    IF i > Len(table.names) THEN best
    ELSE LET colname == table.names[i]
         IN  IF InSeq(names, colname) /\ Greater(ThisErr(table, colname), best[1])
             THEN MaxErrorLoop(table, names, i + 1, <<ThisErr(table, colname), colname>>)
             ELSE MaxErrorLoop(table, names, i + 1, best)

Unbound == "unbound"

\* max_error(pErr, task_names)
MaxError(table, names) ==
    LET r == MaxErrorLoop(table, names, 1, <<NegInf, Unbound>>)
    IN  IF r[2] = Unbound
        THEN [exc |-> "UnboundLocalError", err |-> r[1], colname |-> r[2]]
        ELSE [exc |-> "none", err |-> r[1], colname |-> r[2]]

RECURSIVE MinErrorLoop(_, _, _, _)
MinErrorLoop(table, names, i, best) ==
    IF i > Len(table.names) THEN best
    ELSE LET colname == table.names[i]
         IN  IF InSeq(names, colname) /\ Greater(best[1], ThisErr(table, colname))
             THEN MinErrorLoop(table, names, i + 1, <<ThisErr(table, colname), colname>>)
             ELSE MinErrorLoop(table, names, i + 1, best)

\* min_error(pErr, task_names)
MinError(table, names) ==
    LET r == MinErrorLoop(table, names, 1, <<PosInf, Unbound>>)
    IN  IF r[2] = Unbound
        THEN [exc |-> "UnboundLocalError", err |-> r[1], colname |-> r[2]]
        ELSE [exc |-> "none", err |-> r[1], colname |-> r[2]]

(***************************************************************************)
(* rra.py: select_rra_task_weights, the pure parts                         *)
(***************************************************************************)
\* lines 153-155: for taskn in orig_task_names, where orig_task_names is
\* task_names itself (line 152 binds a second name to the same list), so the
\* list shrinks under the iterator; idx is the iterator's position
RECURSIVE OmitLoop(_, _, _)
OmitLoop(names, idx, regex) ==
    IF idx >= Len(names) THEN names
    ELSE LET taskn == names[idx + 1]
         IN  IF ReMatch(regex, taskn)
             THEN OmitLoop(ListRemove(names, taskn), idx + 1, regex)
             ELSE OmitLoop(names, idx + 1, regex)

\* lines 151-155
OmitTaskNames(names, regex) ==
    IF regex = NoRegex THEN names ELSE OmitLoop(names, 0, regex)

\* line 167
AvgMaxErr(lo, hi) == RMul(<<1, 2>>, RAdd(lo, hi))

\* line 202
\* the upper comparison made against the average of the thresholds
OutOfRangeAboveAverage(this_err, lo, hi) ==
    RLess(AvgMaxErr(lo, hi), this_err) \/ RLess(this_err, lo)

OutOfRange(this_err, lo, hi) == RLess(hi, this_err) \/ RLess(this_err, lo)

\* lines 203-208
Increment(this_err, lo, hi) ==
    IF RLess(hi, this_err)
    THEN [exc |-> "none", value |-> RSub(this_err, AvgMaxErr(lo, hi))]
    ELSE IF RLess(this_err, lo)
    THEN [exc |-> "none",
          value |-> RNeg(RAbs(RSub(AvgMaxErr(lo, hi), this_err)))]
    ELSE [exc |-> "Exception: Unexpected error value.", value |-> <<0, 1>>]

\* a fixed step, not scaled by the weight
NewWeightFixedStep(prev_weight, increment) ==
    RAdd(prev_weight, RMul(<<1, 2>>, increment))

\* the whole increment applied, the factor 0.5 left out
NewWeightFullStep(prev_weight, increment) ==
    RAdd(prev_weight, RMul(increment, prev_weight))

\* line 212
NewWeight(prev_weight, increment) ==
    RAdd(prev_weight, RMul(RMul(<<1, 2>>, increment), prev_weight))


(***************************************************************************)
(* Paths and XML text (dataman.copy_cmc_inputs, rra.select_rra_task_weights)*)
(*                                                                         *)
(* A text is the sequence of its tokens: " " (white space), "/", "\\", and *)
(* names, which are not looked into; '' is <<>>.  All paths are relative   *)
(* to the working directory or absolute; a file system maps normalised     *)
(* paths to contents.                                                      *)
(***************************************************************************)
\* str.lstrip(), str.rstrip(), str.strip()
RECURSIVE LStrip(_)
LStrip(s) == IF s /= <<>> /\ Head(s) = " " THEN LStrip(Tail(s)) ELSE s

RECURSIVE RStrip(_)
RStrip(s) ==
    IF s /= <<>> /\ s[Len(s)] = " " THEN RStrip(SubSeq(s, 1, Len(s) - 1)) ELSE s

Strip(s) == LStrip(RStrip(s))

IsPrefix(k, s) == Len(k) <= Len(s) /\ SubSeq(s, 1, Len(k)) = k

\* s.replace(key, val): every occurrence of key, left to right
RECURSIVE StrReplace(_, _, _)
StrReplace(s, key, val) ==
    IF s = <<>> \/ key = <<>> THEN s
    ELSE IF IsPrefix(key, s)
    THEN val \o StrReplace(SubSeq(s, Len(key) + 1, Len(s)), key, val)
    ELSE <<Head(s)>> \o StrReplace(Tail(s), key, val)

\* for key, val in replace.items(): path = path.replace(key, val); replace
\* is a sequence of <<key, val>> pairs in the dictionary's order
RECURSIVE ReplaceAll(_, _)
ReplaceAll(path, replace) ==
    IF replace = <<>> THEN path
    ELSE ReplaceAll(StrReplace(path, Head(replace)[1], Head(replace)[2]),
                    Tail(replace))

\* the index of the last "/" of a path, 0 if it has none
RECURSIVE LastSlash(_, _)
LastSlash(p, i) ==
    IF i = 0 THEN 0 ELSE IF p[i] = "/" THEN i ELSE LastSlash(p, i - 1)

\* s with the "/" at its end removed (os.path.split strips them from the
\* head unless the head is the root)
RECURSIVE DropEndSlashes(_)
DropEndSlashes(s) ==
    IF s /= <<>> /\ s[Len(s)] = "/"
    THEN DropEndSlashes(SubSeq(s, 1, Len(s) - 1))
    ELSE s

\* os.path.split(p)[0]
DirName(p) ==
    LET i == LastSlash(p, Len(p))
        head == SubSeq(p, 1, i)
    IN  IF DropEndSlashes(head) = <<>> THEN head ELSE DropEndSlashes(head)

\* os.path.basename(p)
BaseName(p) == SubSeq(p, LastSlash(p, Len(p)) + 1, Len(p))

\* os.path.join(a, b)
Join(a, b) ==
    IF b /= <<>> /\ Head(b) = "/" THEN b
    ELSE IF a = <<>> \/ a[Len(a)] = "/" THEN a \o b
    ELSE a \o <<"/">> \o b

\* the components of a path: the runs of tokens between its "/"
RECURSIVE Components(_, _, _)
Components(p, cur, acc) ==
    IF p = <<>> THEN Append(acc, cur)
    ELSE IF Head(p) = "/" THEN Components(Tail(p), <<>>, Append(acc, cur))
    ELSE Components(Tail(p), Append(cur, Head(p)), acc)

\* os.path.normpath on components: '' and '.' dropped, '..' taken back
\* against the component before it
RECURSIVE NormComponents(_, _, _)
NormComponents(comps, abs, acc) ==
    IF comps = <<>> THEN acc
    ELSE LET c == Head(comps)
         IN  IF c = <<>> \/ c = <<".">>
             THEN NormComponents(Tail(comps), abs, acc)
             ELSE IF c = <<"..">>
             THEN IF acc /= <<>> /\ acc[Len(acc)] /= <<"..">>
                  THEN NormComponents(Tail(comps), abs,
                                      SubSeq(acc, 1, Len(acc) - 1))
                  ELSE IF abs
                  THEN NormComponents(Tail(comps), abs, acc)
                  ELSE NormComponents(Tail(comps), abs, Append(acc, c))
             ELSE NormComponents(Tail(comps), abs, Append(acc, c))

RECURSIVE JoinComponents(_)
JoinComponents(comps) ==
    IF comps = <<>> THEN <<>>
    ELSE IF Len(comps) = 1 THEN comps[1]
    ELSE comps[1] \o <<"/">> \o JoinComponents(Tail(comps))

IsAbs(p) == p /= <<>> /\ Head(p) = "/"

\* os.path.normpath(p)
NormPath(p) ==
    LET body == JoinComponents(
                    NormComponents(Components(p, <<>>, <<>>), IsAbs(p), <<>>))
    IN  IF IsAbs(p) THEN <<"/">> \o body
        ELSE IF body = <<>> THEN <<".">> ELSE body

\* the number of leading components two lists share
RECURSIVE CommonLen(_, _)
CommonLen(a, b) ==
    IF a = <<>> \/ b = <<>> \/ Head(a) /= Head(b) THEN 0
    ELSE 1 + CommonLen(Tail(a), Tail(b))

\* os.path.relpath(path, start), both taken from the working directory
RelPath(path, start) ==
    LET pcomps == NormComponents(Components(path, <<>>, <<>>), TRUE, <<>>)
        sc == NormComponents(Components(start, <<>>, <<>>), TRUE, <<>>)
        n == CommonLen(pcomps, sc)
        ups == [i \in 1..(Len(sc) - n) |-> <<"..">>]
        rel == ups \o SubSeq(pcomps, n + 1, Len(pcomps))
    IN  IF rel = <<>> THEN <<".">> ELSE JoinComponents(rel)

\* path.replace('\\', '/')
SlashForward(path) == [i \in 1..Len(path) |-> IF path[i] = "\\" THEN "/" ELSE path[i]]

\* an element of a parsed document
El(tag, text) == [tag |-> tag, text |-> text]

\* xml.findall('.//%s' % tag): the places of the matching elements
FindAll(xml, tag) == SelectSeq([i \in 1..Len(xml) |-> i], LAMBDA i : xml[i].tag = tag)


(***************************************************************************)
(* rra.py: select_rra_task_weights, the call                               *)
(***************************************************************************)
TaskNameUniverse == {"pelvis_tx", "arm_flex_r", "arm_flex_l"}

HasNoRepeat(q) == \A i \in 1..Len(q), j \in 1..Len(q) : q[i] = q[j] => i = j

TaskNameLists ==
    {q \in SeqsUpTo(TaskNameUniverse, MaxNames) : q /= <<>> /\ HasNoRepeat(q)}

Regexes == {<<"arm", "elbow">>}

Thresholds == {<<Rat(1, 2), Rat(3, 2)>>, <<Rat(1, 1), Rat(3, 2)>>,
               <<Rat(2, 1), Rat(4, 1)>>}

Task(section, name, weight) ==
    [section |-> section, name |-> name, weight |-> weight]

TasksFiles ==
    {<<Task("defaults", "default", 1000000),
       Task("objects", "pelvis_tx", 10000000),
       Task("objects", "arm_flex_r", 2500000),
       Task("objects", "arm_flex_l", 1000000)>>,
     <<Task("defaults", "default", 1000000),
       Task("objects", "arm_flex_r", 2500000),
       Task("objects", "pelvis_tx", 10000000)>>}

\* the data rows the external tool may write
PErrRows == {<<"0.000", "0.002", "0.002">>, <<"0.000", "0.012", "0.012">>,
             <<"0.000", "-0.020", "0.002">>, <<"0.000", "0.002", "0.030">>}

\* the pErr files the external tool may write
PErrFiles ==
    {File(<<HeaderLine, SentinelLine, NamesLine>> \o rows) :
        rows \in SeqsUpTo(PErrRows, MaxRows) \ {<<>>}}

EmptyTable == [names |-> <<>>, rows |-> <<>>]

\* a call of experiment() (tool "cmc") or static_optimization_experiment()
\* (tool "so") at the given position; edited is what fcn will change
ExCall(at, tool, overwrite, minimal, edited, before) ==
    [pc |-> at, exc |-> "none", tool |-> tool, overwrite |-> overwrite,
     minimal |-> minimal, edited |-> edited, fcn_calls |-> 0,
     before |-> before]

NoDirectory == [exists |-> FALSE, readme |-> <<>>, files |-> {}]

ExIdle ==
    /\ ex_call = ExCall("idle", "cmc", FALSE, TRUE, {}, NoDirectory)
    /\ ex_dest = NoDirectory

CcIdle ==
    /\ cc_files = {}
    /\ cc_dirs = {}
    /\ cc_calls = <<>>

WtIdle ==
    /\ wt_pc = "idle"
    /\ wt_task_weights = <<>>
    /\ wt_task_names = <<>>
    /\ wt_do_round = FALSE
    /\ wt_before = <<>>
    /\ wt_file = <<>>
    /\ wt_read = [exc |-> "none", weights |-> <<>>]

\* setup_fpath, and the setup documents tried: the text of the RRATool
\* element stands for its attribute name
RraSetupPath == <<"in", "/", "rra_setup.xml">>

RraSetupDoc ==
    <<El("RRATool", <<"subject01">>),
      El("results_directory", <<" ", "results">>),
      El("task_set_file", <<"tasks.xml", " ">>)>>

RraSetupDocTwoTaskSets == Append(RraSetupDoc, El("task_set_file", <<"other.xml">>))

RraSetupDocs ==
    {RraSetupDoc,
     RraSetupDocTwoTaskSets,
     SubSeq(RraSetupDoc, 1, 2),
     <<RraSetupDoc[1], RraSetupDoc[3]>>,
     Tail(RraSetupDoc)}

RraInitOn(docs) ==
    /\ pc = "setup"
    /\ rra_setup \in docs
    /\ tasks_fpath = None
    /\ pErr_fname = None
    /\ exc = "none"
    /\ task_names \in {None} \cup TaskNameLists
    /\ task_name_regex_omit \in {NoRegex} \cup Regexes
    /\ \E t \in Thresholds : min_max_err = t[1] /\ max_max_err = t[2]
    /\ tasks_file \in TasksFiles
    /\ pErr_file \in {NoFile} \cup PErrFiles
    /\ task_weights = <<>>
    /\ pErr = EmptyTable
    /\ maxerr = NegInf
    /\ minerr = PosInf
    /\ iter_count = 0
    /\ icol = 0
    /\ rra_status = 0
    /\ effects = <<>>

RraInit == RraInitOn({RraSetupDoc})

RraInitAnySetup == RraInitOn(RraSetupDocs)

RraIdle ==
    /\ pc = "idle"
    /\ rra_setup = <<>>
    /\ tasks_fpath = None
    /\ pErr_fname = None
    /\ exc = "none"
    /\ task_names = None
    /\ task_name_regex_omit = NoRegex
    /\ min_max_err = Rat(1, 2)
    /\ max_max_err = Rat(3, 2)
    /\ tasks_file = <<>>
    /\ pErr_file = NoFile
    /\ task_weights = <<>>
    /\ pErr = EmptyTable
    /\ maxerr = NegInf
    /\ minerr = PosInf
    /\ iter_count = 0
    /\ icol = 0
    /\ rra_status = 0
    /\ effects = <<>>

Raise(e) == pc' = "raised" /\ exc' = e

\* lines 136-145: the tasks file named by the first task_set_file element;
\* a path that is not absolute is taken as it is, an absolute one joined
\* to setup_dir (which leaves it as it is)
ParseSetup ==
    /\ pc = "setup"
    /\ LET found == FindAll(rra_setup, "task_set_file")
           setup_dir == DirName(RraSetupPath)
           task_setup_path == Strip(rra_setup[found[1]].text)
       IN  IF found = <<>>
           THEN Raise("IndexError") /\ UNCHANGED tasks_fpath
           ELSE /\ tasks_fpath' = IF ~IsAbs(task_setup_path)
                                  THEN task_setup_path
                                  ELSE Join(setup_dir, task_setup_path)
                /\ pc' = "task_names"
                /\ UNCHANGED exc
    /\ UNCHANGED <<task_names, task_name_regex_omit, min_max_err, max_max_err,
                   tasks_file, pErr_file, task_weights, pErr, maxerr, minerr,
                   iter_count, icol, rra_status, effects, rra_setup,
                   pErr_fname, stoVars, wtVars, ccVars, exVars>>

\* lines 158-160
ResultsLookup ==
    /\ pc = "results"
    /\ LET resdir == FindAll(rra_setup, "results_directory")
           rratool == FindAll(rra_setup, "RRATool")
           rratool_name == rra_setup[rratool[1]].text
       IN  IF resdir = <<>> \/ rratool = <<>>
           THEN Raise("IndexError") /\ UNCHANGED pErr_fname
           ELSE /\ pErr_fname' = rratool_name \o <<"_pErr.sto">>
                /\ pc' = "read_weights"
                /\ UNCHANGED exc
    /\ UNCHANGED <<task_names, task_name_regex_omit, min_max_err, max_max_err,
                   tasks_file, pErr_file, task_weights, pErr, maxerr, minerr,
                   iter_count, icol, rra_status, effects, rra_setup,
                   tasks_fpath, stoVars, wtVars, ccVars, exVars>>

\* lines 147-148
GetTaskNames ==
    /\ pc = "task_names"
    /\ IF task_names = None
       THEN LET r == AllTaskNames(tasks_file)
            IN  IF r.exc /= "none"
                THEN Raise(r.exc) /\ UNCHANGED task_names
                ELSE pc' = "omit" /\ task_names' = r.names /\ UNCHANGED exc
       ELSE pc' = "omit" /\ UNCHANGED <<task_names, exc>>
    /\ UNCHANGED <<task_name_regex_omit, min_max_err, max_max_err, tasks_file,
                   pErr_file, task_weights, pErr, maxerr, minerr, iter_count,
                   icol, rra_status, effects, restVars>>

\* lines 150-155
OmitByRegex ==
    /\ pc = "omit"
    /\ task_names' = OmitTaskNames(task_names, task_name_regex_omit)
    /\ pc' = "results"
    /\ UNCHANGED <<exc, task_name_regex_omit, min_max_err, max_max_err,
                   tasks_file, pErr_file, task_weights, pErr, maxerr, minerr,
                   iter_count, icol, rra_status, effects, restVars>>

\* line 177
ReadTaskWeights ==
    /\ pc = "read_weights"
    /\ LET r == TaskWeightsFromFile(tasks_file, task_names)
       IN  IF r.exc /= "none"
           THEN Raise(r.exc) /\ UNCHANGED task_weights
           ELSE pc' = "initial_run" /\ task_weights' = r.weights /\ UNCHANGED exc
    /\ UNCHANGED <<task_names, task_name_regex_omit, min_max_err, max_max_err,
                   tasks_file, pErr_file, pErr, maxerr, minerr, iter_count,
                   icol, rra_status, effects, restVars>>

\* subprocess.check_call in place of subprocess.call
RunRRAChecked(next_pc) ==
    /\ \E status \in {0, 1} :
        /\ rra_status' = status
        /\ IF status = 0
           THEN pErr_file' \in PErrFiles /\ pc' = next_pc /\ UNCHANGED exc
           ELSE pErr_file' = pErr_file /\ Raise("CalledProcessError")
    /\ effects' = Append(effects, "rra")

\* subprocess.call(rra_command, stdout=our_stdout): the call waits for the
\* tool and returns its exit status, which the caller drops.  The tool
\* writes a pErr file when it exits with 0 and leaves the file as it was
\* when it fails.
RunRRA(next_pc) ==
    /\ \E status \in {0, 1} :
        /\ rra_status' = status
        /\ IF status = 0
           THEN pErr_file' \in PErrFiles
           ELSE pErr_file' = pErr_file
    /\ effects' = Append(effects, "rra")
    /\ pc' = next_pc
    /\ UNCHANGED exc

\* lines 179-181, os.path.exists(pErr_fpath) false
InitialRun ==
    /\ pc = "initial_run"
    /\ ~pErr_file.exists
    /\ RunRRA("read_pErr")
    /\ UNCHANGED <<task_names, task_name_regex_omit, min_max_err, max_max_err,
                   tasks_file, task_weights, pErr, maxerr, minerr, iter_count,
                   icol, restVars>>

\* the tool run before the loop whether or not the pErr file exists
InitialRunEvenIfExists ==
    /\ pc = "initial_run"
    /\ pErr_file.exists
    /\ RunRRA("read_pErr")
    /\ UNCHANGED <<task_names, task_name_regex_omit, min_max_err, max_max_err,
                   tasks_file, task_weights, pErr, maxerr, minerr, iter_count,
                   icol, restVars>>

\* line 179, os.path.exists(pErr_fpath) true
SkipInitialRun ==
    /\ pc = "initial_run"
    /\ pErr_file.exists
    /\ pc' = "read_pErr"
    /\ UNCHANGED <<exc, task_names, task_name_regex_omit, min_max_err,
                   max_max_err, tasks_file, pErr_file, task_weights, pErr,
                   maxerr, minerr, iter_count, icol, rra_status, effects,
                   restVars>>

\* lines 182-184 and 232-234: read the error table and its extreme errors;
\* open() raises IOError when the file does not exist
ReadErrors(next_pc) ==
    IF ~pErr_file.exists
    THEN Raise("IOError") /\ UNCHANGED <<pErr, maxerr, minerr, effects>>
    ELSE LET data == Storage2Numpy(pErr_file.lines)
         IN  IF data.exc /= "none"
             THEN Raise(data.exc) /\ UNCHANGED <<pErr, maxerr, minerr, effects>>
             ELSE LET table == [names |-> data.names, rows |-> data.rows]
                      mx == MaxError(table, task_names)
                      mn == MinError(table, task_names)
                  IN  /\ pErr' = table
                      /\ effects' = Append(effects, "read_pErr")
                      /\ IF mx.exc /= "none"
                         THEN Raise(mx.exc) /\ UNCHANGED <<maxerr, minerr>>
                         ELSE IF mn.exc /= "none"
                         THEN Raise(mn.exc) /\ maxerr' = mx.err /\ UNCHANGED minerr
                         ELSE /\ maxerr' = mx.err
                              /\ minerr' = mn.err
                              /\ pc' = next_pc
                              /\ UNCHANGED exc

\* lines 182-185
ReadPErr ==
    /\ pc = "read_pErr"
    /\ ReadErrors("while")
    /\ iter_count' = IF pc' = "while" THEN 0 ELSE iter_count
    /\ UNCHANGED <<task_names, task_name_regex_omit, min_max_err, max_max_err,
                   tasks_file, pErr_file, task_weights, icol, rra_status,
                   restVars>>


\* line 186, condition true; line 188
EnterIteration ==
    /\ pc = "while"
    /\ Greater(maxerr, max_max_err) \/ RLess(minerr, min_max_err)
    /\ iter_count < MaxIter
    /\ iter_count' = iter_count + 1
    /\ icol' = 0
    /\ pc' = "for"
    /\ UNCHANGED <<exc, task_names, task_name_regex_omit, min_max_err,
                   max_max_err, tasks_file, pErr_file, task_weights, pErr,
                   maxerr, minerr, rra_status, effects, restVars>>

\* line 186, condition false; line 236
ReturnNormally ==
    /\ pc = "while"
    /\ ~(Greater(maxerr, max_max_err) \/ RLess(minerr, min_max_err))
    /\ pc' = "done"
    /\ UNCHANGED <<exc, task_names, task_name_regex_omit, min_max_err,
                   max_max_err, tasks_file, pErr_file, task_weights, pErr,
                   maxerr, minerr, iter_count, icol, rra_status, effects,
                   restVars>>

\* one task per iteration: the for loop left after the first update
ForColumnOneAtATime ==
    /\ pc = "for"
    /\ icol < Len(pErr.names)
    /\ LET colname == pErr.names[icol + 1]
           this_err == ThisErr(pErr, colname)
           inc == Increment(this_err, min_max_err, max_max_err)
           itask == IndexOf(task_names, colname)
       IN  IF InSeq(task_names, colname)
              /\ OutOfRange(this_err, min_max_err, max_max_err)
           THEN /\ task_weights' =
                       [task_weights EXCEPT
                           ![itask] = NewWeight(task_weights[itask], inc.value)]
                /\ icol' = Len(pErr.names)
           ELSE icol' = icol + 1 /\ UNCHANGED task_weights
    /\ UNCHANGED <<pc, exc, task_names, task_name_regex_omit, min_max_err,
                   max_max_err, tasks_file, pErr_file, pErr, maxerr, minerr,
                   iter_count, rra_status, effects, restVars>>

\* every tracked column re-weighted, in range or not
ForColumnEveryTracked ==
    /\ pc = "for"
    /\ icol < Len(pErr.names)
    /\ icol' = icol + 1
    /\ LET colname == pErr.names[icol + 1]
           this_err == ThisErr(pErr, colname)
           increment == RSub(this_err, AvgMaxErr(min_max_err, max_max_err))
           itask == IndexOf(task_names, colname)
       IN  IF InSeq(task_names, colname)
           THEN task_weights' =
                    [task_weights EXCEPT
                        ![itask] = NewWeight(task_weights[itask], increment)]
           ELSE UNCHANGED task_weights
    /\ UNCHANGED <<pc, exc, task_names, task_name_regex_omit, min_max_err,
                   max_max_err, tasks_file, pErr_file, pErr, maxerr, minerr,
                   iter_count, rra_status, effects, restVars>>

\* lines 195-217, one pass of the for loop over pErr.dtype.names
ForColumn ==
    /\ pc = "for"
    /\ icol < Len(pErr.names)
    /\ icol' = icol + 1
    /\ LET colname == pErr.names[icol + 1]
           this_err == ThisErr(pErr, colname)
           inc == Increment(this_err, min_max_err, max_max_err)
           itask == IndexOf(task_names, colname)
       IN  IF InSeq(task_names, colname)
              /\ OutOfRange(this_err, min_max_err, max_max_err)
           THEN IF inc.exc /= "none"
                THEN Raise(inc.exc) /\ UNCHANGED task_weights
                ELSE /\ task_weights' =
                            [task_weights EXCEPT
                                ![itask] = NewWeight(task_weights[itask], inc.value)]
                     /\ UNCHANGED <<pc, exc>>
           ELSE UNCHANGED <<pc, exc, task_weights>>
    /\ UNCHANGED <<task_names, task_name_regex_omit, min_max_err, max_max_err,
                   tasks_file, pErr_file, pErr, maxerr, minerr, iter_count,
                   rra_status, effects, restVars>>

\* line 220, reached when the for loop is exhausted
WriteWeights ==
    /\ pc = "for"
    /\ icol = Len(pErr.names)
    /\ tasks_file' = WriteTaskWeightsToFile(task_weights, tasks_file, task_names)
    /\ effects' = Append(effects, "write_tasks")
    /\ pc' = "run_rra"
    /\ UNCHANGED <<exc, task_names, task_name_regex_omit, min_max_err,
                   max_max_err, pErr_file, task_weights, pErr, maxerr, minerr,
                   iter_count, icol, rra_status, restVars>>

\* lines 221-222
RunRRAInLoop ==
    /\ pc = "run_rra"
    /\ RunRRA("plot")
    /\ UNCHANGED <<task_names, task_name_regex_omit, min_max_err, max_max_err,
                   tasks_file, task_weights, pErr, maxerr, minerr, iter_count,
                   icol, restVars>>

\* lines 225-226
UpdatePlot ==
    /\ pc = "plot"
    /\ effects' = Append(effects, "plot")
    /\ pc' = "update_error"
    /\ UNCHANGED <<exc, task_names, task_name_regex_omit, min_max_err,
                   max_max_err, tasks_file, pErr_file, task_weights, pErr,
                   maxerr, minerr, iter_count, icol, rra_status, restVars>>

\* lines 231-234
UpdateError ==
    /\ pc = "update_error"
    /\ LET r == TaskWeightsFromFileOneArgument(tasks_file)
       IN  IF r.exc /= "none"
           THEN /\ Raise(r.exc)
                /\ UNCHANGED <<task_weights, pErr, maxerr, minerr, effects>>
           ELSE /\ task_weights' = r.weights
                /\ ReadErrors("while")
    /\ UNCHANGED <<task_names, task_name_regex_omit, min_max_err, max_max_err,
                   tasks_file, pErr_file, iter_count, icol, rra_status,
                   restVars>>

RraNext ==
    \/ ParseSetup
    \/ GetTaskNames
    \/ OmitByRegex
    \/ ResultsLookup
    \/ ReadTaskWeights
    \/ InitialRun
    \/ SkipInitialRun
    \/ ReadPErr
    \/ EnterIteration
    \/ ReturnNormally
    \/ ForColumn
    \/ WriteWeights
    \/ RunRRAInLoop
    \/ UpdatePlot
    \/ UpdateError

Init == RraInit /\ StoIdle /\ WtIdle /\ CcIdle /\ ExIdle

Next == RraNext

Spec == Init /\ [][Next]_vars

StoNext == StoCall /\ UNCHANGED <<rraVars, wtVars, ccVars, exVars>>

InitSto == StoInit /\ RraIdle /\ WtIdle /\ CcIdle /\ ExIdle

SpecSto == InitSto /\ [][StoNext]_vars


(***************************************************************************)
(* rra.py: a tasks file written by write_task_weights_to_file and read     *)
(* back by task_weights_from_file                                          *)
(***************************************************************************)
\* the names a caller may give: tasks of the file, and the name of the
\* CMC_Joint of the defaults section
WtNameLists ==
    {q \in SeqsUpTo({"pelvis_tx", "arm_flex_r", "default"}, MaxNames) :
        q /= <<>> /\ HasNoRepeat(q)}

\* the weights a caller may give: 13.75, 1/3, 2/3, -2.5
WtWeights == {Rat(55, 4), Rat(1, 3), Rat(2, 3), Rat(-5, 2)}

\* tasks files with their task elements in different orders; the second has
\* no task arm_flex_r
WtFiles ==
    {<<Task("defaults", "default", 1000000),
       Task("objects", "pelvis_tx", 10000000),
       Task("objects", "arm_flex_r", 2500000),
       Task("objects", "arm_flex_l", 1000000)>>,
     <<Task("defaults", "default", 1000000),
       Task("objects", "arm_flex_l", 1000000),
       Task("objects", "pelvis_tx", 10000000)>>,
     <<Task("objects", "arm_flex_r", 2500000),
       Task("objects", "arm_flex_l", 1000000),
       Task("objects", "pelvis_tx", 10000000),
       Task("defaults", "default", 1000000)>>}

WtInit ==
    /\ wt_pc = "write"
    /\ wt_task_names \in WtNameLists
    /\ wt_task_weights \in [1..Len(wt_task_names) -> WtWeights]
    /\ wt_do_round \in BOOLEAN
    /\ wt_before \in WtFiles
    /\ wt_file = wt_before
    /\ wt_read = [exc |-> "none", weights |-> <<>>]

\* write_task_weights_to_file(task_weights, fpath, task_names, do_round)
WtWrite ==
    /\ wt_pc = "write"
    /\ wt_file' = WriteTaskWeightsDoRound(wt_task_weights, wt_file,
                                          wt_task_names, wt_do_round)
    /\ wt_pc' = "read"
    /\ UNCHANGED <<wt_task_weights, wt_task_names, wt_do_round, wt_before,
                   wt_read, rraVars, stoVars, ccVars, exVars>>

\* task_weights_from_file(fpath, task_names)
WtRead ==
    /\ wt_pc = "read"
    /\ wt_read' = TaskWeightsFromFile(wt_file, wt_task_names)
    /\ wt_pc' = "done"
    /\ UNCHANGED <<wt_task_weights, wt_task_names, wt_do_round, wt_before,
                   wt_file, rraVars, stoVars, ccVars, exVars>>

WtNext == WtWrite \/ WtRead

InitWt == WtInit /\ RraIdle /\ StoIdle /\ CcIdle /\ ExIdle

SpecWt == InitWt /\ [][WtNext]_vars


(***************************************************************************)
(* dataman.copy_cmc_inputs                                                 *)
(*                                                                         *)
(* An XML document is the sequence of its elements that hold a file        *)
(* reference or a setting, in document order, each [tag, text]; a file     *)
(* that is no document holds one element that names its data.  The file    *)
(* system is cc_files, a set of [path, content] with one entry per path,   *)
(* and cc_dirs; paths are held normalised.                                 *)
(***************************************************************************)
Data(id) == <<El("data", <<id>>)>>

IsFile(files, path) == \E f \in files : f.path = NormPath(path)

\* os.path.exists(path)
Exists(files, dirs, path) ==
    path /= <<>> /\ (IsFile(files, path) \/ NormPath(path) \in dirs)

ContentAt(files, path) == (CHOOSE f \in files : f.path = NormPath(path)).content

\* the file system after content is put at path
WriteFile(files, path, content) ==
    {f \in files : f.path /= NormPath(path)}
        \cup {[path |-> NormPath(path), content |-> content]}

\* the keys of `old`, in the order lines 228-243 fill it
ResolveOrder == <<"model", "tasks", "actuators", "control_constraints",
                  "desired_kinematics", "external_loads", "force_plates",
                  "extload_kinematics">>

Keys == {ResolveOrder[i] : i \in 1..Len(ResolveOrder)}

\* the keys whose reference stands in the external loads file
ExtLoadsKeys == {"force_plates", "extload_kinematics"}

\* the tag of the element that holds the reference of a key
TagOf(key) ==
    CASE key = "model" -> "model_file"
      [] key = "tasks" -> "task_set_file"
      [] key = "actuators" -> "force_set_files"
      [] key = "control_constraints" -> "constraints_file"
      [] key = "desired_kinematics" -> "desired_kinematics_file"
      [] key = "external_loads" -> "external_loads_file"
      [] key = "force_plates" -> "datafile"
      [] key = "extload_kinematics" -> "external_loads_model_kinematics_file"

\* the joined candidate tried before the literal one
ValidPathJoinedFirst(files, dirs, file_containing_path, xml, tag, replace) ==
    LET found == FindAll(xml, tag)
    IN  IF found = <<>> THEN [exc |-> "IndexError", path |-> None]
        ELSE
        LET path == xml[found[1]].text
            dir == DirName(file_containing_path)
            replaced == SlashForward(ReplaceAll(path, replace))
            path2 == NormPath(Join(dir, replaced))
        IN  IF LStrip(path) = <<>> THEN [exc |-> "none", path |-> None]
            ELSE IF Exists(files, dirs, path2) THEN [exc |-> "none", path |-> path2]
            ELSE IF Exists(files, dirs, path) THEN [exc |-> "none", path |-> path]
            ELSE [exc |-> "Exception: Paths do not exist.", path |-> None]

\* valid_path(file_containing_path, xml, tag), lines 197-223; the text of
\* an element without text (None) is <<>>
ValidPath(files, dirs, file_containing_path, xml, tag, replace) ==
    LET found == FindAll(xml, tag)
    IN  IF found = <<>> THEN [exc |-> "IndexError", path |-> None]
        ELSE
        LET path == xml[found[1]].text
            dir == DirName(file_containing_path)
            replaced == ReplaceAll(path, replace)
            forward == SlashForward(replaced)
            path2 == NormPath(Join(dir, forward))
            path2l == NormPath(Join(dir, LStrip(forward)))
            path2r == NormPath(Join(dir, RStrip(forward)))
        IN  IF LStrip(path) = <<>> THEN [exc |-> "none", path |-> None]
            ELSE IF Exists(files, dirs, path) THEN [exc |-> "none", path |-> path]
            ELSE IF Exists(files, dirs, replaced)
            THEN [exc |-> "none", path |-> replaced]
            ELSE IF Exists(files, dirs, forward)
            THEN [exc |-> "none", path |-> forward]
            ELSE IF Exists(files, dirs, path2) THEN [exc |-> "none", path |-> path2]
            ELSE IF Exists(files, dirs, path2l)
            THEN [exc |-> "none", path |-> path2l]
            ELSE IF Exists(files, dirs, path2r)
            THEN [exc |-> "none", path |-> path2r]
            ELSE [exc |-> "Exception: Paths do not exist.", path |-> None]

\* **kwargs: the new file name given for a key, None for a key not given
AllKeys == Keys \cup {"setup"}

NoKwargs == [k \in AllKeys |-> None]

\* key in kwargs
InKwargs(kwargs, key) == kwargs[key] /= None

\* the last match overwritten, and none missed
SetLast(xml, tag, value) ==
    LET found == FindAll(xml, tag)
    IN  IF found = <<>> THEN [exc |-> "none", xml |-> xml]
        ELSE [exc |-> "none", xml |-> [xml EXCEPT ![found[Len(found)]].text = value]]

\* xml.findall('.//%s' % tag)[0].text = value
SetFirst(xml, tag, value) ==
    LET found == FindAll(xml, tag)
    IN  IF found = <<>> THEN [exc |-> "IndexError", xml |-> xml]
        ELSE [exc |-> "none", xml |-> [xml EXCEPT ![found[1]].text = value]]

\* the new name checked before do_not_copy
EditFieldNewNameFirst(xml, tag, key, old, do_not_copy, kwargs, destination) ==
    IF old[key] = None THEN [exc |-> "none", xml |-> xml]
    ELSE IF InKwargs(kwargs, key) THEN SetFirst(xml, tag, kwargs[key])
    ELSE IF key \in do_not_copy
    THEN SetFirst(xml, tag, RelPath(old[key], destination))
    ELSE SetFirst(xml, tag, BaseName(old[key]))

\* edit_field(xml, tag, key), lines 274-283
EditField(xml, tag, key, old, do_not_copy, kwargs, destination) ==
    IF old[key] = None THEN [exc |-> "none", xml |-> xml]
    ELSE IF key \in do_not_copy
    THEN SetFirst(xml, tag, RelPath(old[key], destination))
    ELSE IF InKwargs(kwargs, key) THEN SetFirst(xml, tag, kwargs[key])
    ELSE SetFirst(xml, tag, BaseName(old[key]))

\* edit_field for each of keys in turn, on the document they share
RECURSIVE EditFields(_, _, _, _, _, _)
EditFields(xml, keys, old, do_not_copy, kwargs, destination) ==
    IF keys = <<>> THEN [exc |-> "none", xml |-> xml]
    ELSE LET r == EditField(xml, TagOf(Head(keys)), Head(keys), old,
                            do_not_copy, kwargs, destination)
         IN  IF r.exc /= "none" THEN r
             ELSE EditFields(r.xml, Tail(keys), old, do_not_copy, kwargs,
                             destination)


\* The files the calls are tried on: the setup file in/setup.xml, the
\* external loads file data/ext.xml, the data files they refer to, and
\* files of other content where a wrong candidate would be found.
SetupPath == <<"in", "/", "setup.xml">>

ModelRefs ==
    {<<"in", "/", "m">>, <<"m">>, <<"old", "/", "m">>, <<"in", "\\", "m">>,
     <<" ", "m">>, <<"m", " ">>, <<"nowhere">>, <<" ">>}

SetupDoc(model_ref) ==
    <<El("results_directory", <<"res_old">>),
      El("model_file", model_ref),
      El("task_set_file", <<"t">>),
      El("force_set_files", <<"a">>),
      El("constraints_file", <<>>),
      El("desired_kinematics_file", <<"..", "/", "data", "/", "k">>),
      El("external_loads_file", <<"..", "/", "data", "/", "ext.xml">>)>>

\* documents that lack an element or hold one twice
SetupDocNoModel == Tail(Tail(SetupDoc(<<"m">>)))

SetupDocNoResults == Tail(SetupDoc(<<"m">>))

SetupDocTwoModels ==
    <<El("results_directory", <<"res_old">>),
      El("model_file", <<"m">>),
      El("model_file", <<"t">>)>> \o Tail(Tail(SetupDoc(<<"m">>)))

SetupDocs ==
    {SetupDoc(r) : r \in ModelRefs}
        \cup {SetupDocNoModel, SetupDocNoResults, SetupDocTwoModels}

ExtLoadsDocs ==
    {<<El("datafile", <<"f">>),
       El("external_loads_model_kinematics_file", <<"k">>)>>,
     <<El("datafile", <<" ", "f">>),
       El("external_loads_model_kinematics_file", <<"k">>)>>,
     <<El("external_loads_model_kinematics_file", <<"k">>)>>}

BaseFiles(setup, extloads) ==
    {[path |-> SetupPath, content |-> setup],
     [path |-> <<"data", "/", "ext.xml">>, content |-> extloads],
     [path |-> <<"in", "/", "m">>, content |-> Data("model")],
     [path |-> <<"in", "/", "t">>, content |-> Data("tasks")],
     [path |-> <<"in", "/", "a">>, content |-> Data("actuators")],
     [path |-> <<"data", "/", "k">>, content |-> Data("kinematics")],
     [path |-> <<"data", "/", "f">>, content |-> Data("forces")]}

ExtraFiles ==
    {{},
     {[path |-> <<"m">>, content |-> Data("model of the working directory")]},
     {[path |-> <<"in", "/", " ", "m">>, content |-> Data("model, spaced name")]}}

Replaces == {<<>>, << <<<<"old">>, <<"in">>>> >>}

\* None (the same as an empty list to the code), the list experiment()
\* gives, a key also renamed, and the two lists line 188 rejects
DoNotCopys ==
    {{}, {"desired_kinematics", "force_plates", "extload_kinematics"},
     {"model"}, {"setup"}, {"model", "external_loads"}}

KwargsChoices ==
    {NoKwargs,
     [NoKwargs EXCEPT !["model"] = <<"m2">>],
     [NoKwargs EXCEPT !["setup"] = <<"s2.xml">>,
                      !["external_loads"] = <<"x2.xml">>],
     [NoKwargs EXCEPT !["desired_kinematics"] = <<"k2">>,
                      !["force_plates"] = <<"f2">>]}

Destinations == {<<"out">>, <<"in", "/", "exp">>}

\* a call of copy_cmc_inputs at its first line
NewCall(destination, replace, do_not_copy, kwargs) ==
    [pc |-> "start",
     exc |-> "none",
     cmc_setup_fpath |-> SetupPath,
     destination |-> destination,
     replace |-> replace,
     do_not_copy |-> do_not_copy,
     kwargs |-> kwargs,
     setup |-> <<>>,
     extloads |-> <<>>,
     old |-> [k \in Keys |-> None],
     new_fpaths |-> [k \in AllKeys |-> None],
     i |-> 0]

CcInit ==
    /\ \E setup \in SetupDocs, extloads \in ExtLoadsDocs, extra \in ExtraFiles :
          cc_files = BaseFiles(setup, extloads) \cup extra
    /\ \E made \in SUBSET {<<"out">>} : cc_dirs = {<<"in">>, <<"data">>} \cup made
    /\ \E d \in Destinations, r \in Replaces, dnc \in DoNotCopys,
          kw \in KwargsChoices :
          cc_calls = <<NewCall(d, r, dnc, kw)>>


CcRaise(c, e) == [c EXCEPT !.pc = "raised", !.exc = e]

\* the call begun without the check of do_not_copy
CcStartNoCheck(p) ==
    LET c == cc_calls[p]
    IN  /\ c.pc = "start"
        /\ cc_calls' =
              [cc_calls EXCEPT ![p] =
                  IF ~IsFile(cc_files, c.cmc_setup_fpath)
                  THEN CcRaise(c, "IOError")
                  ELSE [c EXCEPT !.setup = ContentAt(cc_files, c.cmc_setup_fpath),
                                 !.pc = "valid_path",
                                 !.i = 1]]
        /\ UNCHANGED <<cc_files, cc_dirs, rraVars, stoVars, wtVars, exVars>>

\* lines 187-194: the check of do_not_copy, then etree.parse(fname)
CcStart(p) ==
    LET c == cc_calls[p]
    IN  /\ c.pc = "start"
        /\ cc_calls' =
              [cc_calls EXCEPT ![p] =
                  IF "setup" \in c.do_not_copy \/ "external_loads" \in c.do_not_copy
                  THEN CcRaise(c, "Exception: do_not_copy cannot contain setup or external_loads.")
                  ELSE IF ~IsFile(cc_files, c.cmc_setup_fpath)
                  THEN CcRaise(c, "IOError")
                  ELSE [c EXCEPT !.setup = ContentAt(cc_files, c.cmc_setup_fpath),
                                 !.pc = "valid_path",
                                 !.i = 1]]
        /\ UNCHANGED <<cc_files, cc_dirs, rraVars, stoVars, wtVars, exVars>>

\* lines 228-243, one assignment old[key] = valid_path(...); the external
\* loads file is parsed as soon as its path is known (line 239)
CcValidPath(p) ==
    LET c == cc_calls[p]
        key == ResolveOrder[c.i]
        ext == key \in ExtLoadsKeys
        r == ValidPath(cc_files, cc_dirs,
                       IF ext THEN c.old["external_loads"] ELSE c.cmc_setup_fpath,
                       IF ext THEN c.extloads ELSE c.setup,
                       TagOf(key), c.replace)
        next == IF c.i = Len(ResolveOrder) THEN "makedirs" ELSE "valid_path"
    IN  /\ c.pc = "valid_path"
        /\ cc_calls' =
              [cc_calls EXCEPT ![p] =
                  IF r.exc /= "none" THEN CcRaise(c, r.exc)
                  ELSE IF key /= "external_loads"
                  THEN [c EXCEPT !.old[key] = r.path, !.i = c.i + 1, !.pc = next]
                  ELSE IF r.path = None
                  THEN CcRaise([c EXCEPT !.old[key] = r.path], "TypeError")
                  ELSE IF ~IsFile(cc_files, r.path)
                  THEN CcRaise([c EXCEPT !.old[key] = r.path], "IOError")
                  ELSE [c EXCEPT !.old[key] = r.path,
                                 !.extloads = ContentAt(cc_files, r.path),
                                 !.i = c.i + 1,
                                 !.pc = next]]
        /\ UNCHANGED <<cc_files, cc_dirs, rraVars, stoVars, wtVars, exVars>>

\* the calls other than p that work on the destination of p: they are past
\* the test of line 259 and have not ended
OthersAtWork(p) ==
    {q \in DOMAIN cc_calls \ {p} :
        /\ NormPath(cc_calls[q].destination) = NormPath(cc_calls[p].destination)
        /\ cc_calls[q].pc \in {"mkdir", "copy", "edit", "write_setup",
                                "write_extloads"}}

\* the test of line 259 made only when no other call works on the same
\* destination
CcMakeDirsExclusive(p) ==
    LET c == cc_calls[p]
    IN  /\ c.pc = "makedirs"
        /\ OthersAtWork(p) = {}
        /\ cc_calls' =
              [cc_calls EXCEPT ![p] =
                  IF Exists(cc_files, cc_dirs, c.destination)
                  THEN [c EXCEPT !.pc = "copy", !.i = 1]
                  ELSE [c EXCEPT !.pc = "mkdir"]]
        /\ UNCHANGED <<cc_files, cc_dirs, rraVars, stoVars, wtVars, exVars>>

\* line 259, the test os.path.exists(destination)
CcMakeDirs(p) ==
    LET c == cc_calls[p]
    IN  /\ c.pc = "makedirs"
        /\ cc_calls' =
              [cc_calls EXCEPT ![p] =
                  IF Exists(cc_files, cc_dirs, c.destination)
                  THEN [c EXCEPT !.pc = "copy", !.i = 1]
                  ELSE [c EXCEPT !.pc = "mkdir"]]
        /\ UNCHANGED <<cc_files, cc_dirs, rraVars, stoVars, wtVars, exVars>>

\* line 259, os.makedirs(destination): it raises OSError when the directory
\* has come to exist since the test
CcMkdir(p) ==
    LET c == cc_calls[p]
    IN  /\ c.pc = "mkdir"
        /\ IF Exists(cc_files, cc_dirs, c.destination)
           THEN /\ cc_calls' = [cc_calls EXCEPT ![p] = CcRaise(c, "OSError")]
                /\ cc_dirs' = cc_dirs
           ELSE /\ cc_calls' =
                      [cc_calls EXCEPT ![p] = [c EXCEPT !.pc = "copy", !.i = 1]]
                /\ cc_dirs' = cc_dirs \cup {NormPath(c.destination)}
        /\ UNCHANGED <<cc_files, rraVars, stoVars, wtVars, exVars>>

\* the file a key is copied to, lines 263-270
CopyTarget(c, key) ==
    IF InKwargs(c.kwargs, key)
    THEN Join(c.destination, c.kwargs[key])
    ELSE Join(c.destination, BaseName(c.old[key]))

\* the copy made for do_not_copy keys as well
CcCopyEveryKey(p) ==
    LET c == cc_calls[p]
        key == ResolveOrder[c.i]
        val == c.old[key]
        next == IF c.i = Len(ResolveOrder) THEN "edit" ELSE "copy"
    IN  /\ c.pc = "copy"
        /\ IF val /= None /\ key /= "external_loads"
           THEN /\ cc_files' = WriteFile(cc_files, CopyTarget(c, key),
                                         ContentAt(cc_files, val))
                /\ cc_calls' =
                      [cc_calls EXCEPT ![p] =
                          [c EXCEPT !.new_fpaths[key] = CopyTarget(c, key),
                                    !.i = c.i + 1,
                                    !.pc = next]]
           ELSE /\ cc_files' = cc_files
                /\ cc_calls' =
                      [cc_calls EXCEPT ![p] = [c EXCEPT !.i = c.i + 1, !.pc = next]]
        /\ UNCHANGED <<cc_dirs, rraVars, stoVars, wtVars, exVars>>

\* lines 260-270, one pass of the loop over old.items(), taken in the order
\* the keys were put in; shutil.copy raises when source and target are the
\* same file
CcCopy(p) ==
    LET c == cc_calls[p]
        key == ResolveOrder[c.i]
        val == c.old[key]
        next == IF c.i = Len(ResolveOrder) THEN "edit" ELSE "copy"
    IN  /\ c.pc = "copy"
        /\ IF val /= None /\ key /= "external_loads" /\ key \notin c.do_not_copy
           THEN IF NormPath(val) = NormPath(CopyTarget(c, key))
                THEN /\ cc_calls' = [cc_calls EXCEPT ![p] = CcRaise(c, "shutil.Error")]
                     /\ cc_files' = cc_files
                ELSE /\ cc_files' = WriteFile(cc_files, CopyTarget(c, key),
                                              ContentAt(cc_files, val))
                     /\ cc_calls' =
                           [cc_calls EXCEPT ![p] =
                               [c EXCEPT !.new_fpaths[key] = CopyTarget(c, key),
                                         !.i = c.i + 1,
                                         !.pc = next]]
           ELSE /\ cc_files' = cc_files
                /\ cc_calls' =
                      [cc_calls EXCEPT ![p] = [c EXCEPT !.i = c.i + 1, !.pc = next]]
        /\ UNCHANGED <<cc_dirs, rraVars, stoVars, wtVars, exVars>>

\* lines 285-295: results_directory set, then the edit_field calls
CcEditFields(p) ==
    LET c == cc_calls[p]
        res == SetFirst(c.setup, "results_directory", <<"results">>)
        s == EditFields(res.xml,
                        <<"model", "tasks", "actuators", "control_constraints",
                          "desired_kinematics", "external_loads">>,
                        c.old, c.do_not_copy, c.kwargs, c.destination)
        e == EditFields(c.extloads, <<"force_plates", "extload_kinematics">>,
                        c.old, c.do_not_copy, c.kwargs, c.destination)
    IN  /\ c.pc = "edit"
        /\ cc_calls' =
              [cc_calls EXCEPT ![p] =
                  IF res.exc /= "none" THEN CcRaise(c, res.exc)
                  ELSE IF s.exc /= "none"
                  THEN CcRaise([c EXCEPT !.setup = res.xml], s.exc)
                  ELSE IF e.exc /= "none"
                  THEN CcRaise([c EXCEPT !.setup = s.xml], e.exc)
                  ELSE [c EXCEPT !.setup = s.xml,
                                 !.extloads = e.xml,
                                 !.pc = "write_setup"]]
        /\ UNCHANGED <<cc_files, cc_dirs, rraVars, stoVars, wtVars, exVars>>

\* lines 297-303
CcWriteSetup(p) ==
    LET c == cc_calls[p]
        setup_new_fpath ==
            IF InKwargs(c.kwargs, "setup")
            THEN Join(c.destination, c.kwargs["setup"])
            ELSE Join(c.destination, BaseName(c.cmc_setup_fpath))
    IN  /\ c.pc = "write_setup"
        /\ cc_files' = WriteFile(cc_files, setup_new_fpath, c.setup)
        /\ cc_calls' =
              [cc_calls EXCEPT ![p] =
                  [c EXCEPT !.new_fpaths["setup"] = setup_new_fpath,
                            !.pc = "write_extloads"]]
        /\ UNCHANGED <<cc_dirs, rraVars, stoVars, wtVars, exVars>>

\* lines 305-313
CcWriteExtLoads(p) ==
    LET c == cc_calls[p]
        extloads_new_fpath ==
            IF InKwargs(c.kwargs, "external_loads")
            THEN Join(c.destination, c.kwargs["external_loads"])
            ELSE Join(c.destination, BaseName(c.old["external_loads"]))
    IN  /\ c.pc = "write_extloads"
        /\ cc_files' = WriteFile(cc_files, extloads_new_fpath, c.extloads)
        /\ cc_calls' =
              [cc_calls EXCEPT ![p] =
                  [c EXCEPT !.new_fpaths["external_loads"] = extloads_new_fpath,
                            !.pc = "done"]]
        /\ UNCHANGED <<cc_dirs, rraVars, stoVars, wtVars, exVars>>

CcNext ==
    \/ \E p \in DOMAIN cc_calls : CcStart(p)
    \/ \E p \in DOMAIN cc_calls : CcValidPath(p)
    \/ \E p \in DOMAIN cc_calls : CcMakeDirs(p)
    \/ \E p \in DOMAIN cc_calls : CcMkdir(p)
    \/ \E p \in DOMAIN cc_calls : CcCopy(p)
    \/ \E p \in DOMAIN cc_calls : CcEditFields(p)
    \/ \E p \in DOMAIN cc_calls : CcWriteSetup(p)
    \/ \E p \in DOMAIN cc_calls : CcWriteExtLoads(p)

InitCc == CcInit /\ RraIdle /\ StoIdle /\ WtIdle /\ ExIdle

SpecCc == InitCc /\ [][CcNext]_vars

\* Two overlapping calls of copy_cmc_inputs on one setup file and one
\* destination.  The setup file names its model old/m, which the replace
\* argument of a call turns into in/m or into data/m, two files of one name;
\* a call may name the copies of the kinematics and of the force plates.
\* The calls are separate processes, or threads: any step of one may come
\* between two steps of the other.
RaceReplaces ==
    {<< <<<<"old">>, <<"in">>>> >>, << <<<<"old">>, <<"data">>>> >>}

RaceKwargs ==
    {NoKwargs,
     [NoKwargs EXCEPT !["desired_kinematics"] = <<"k2">>,
                      !["force_plates"] = <<"f2">>]}

RaceInit ==
    /\ cc_files = BaseFiles(SetupDoc(<<"old", "/", "m">>),
                            <<El("datafile", <<"f">>),
                              El("external_loads_model_kinematics_file", <<"k">>)>>)
                      \cup {[path |-> <<"data", "/", "m">>,
                             content |-> Data("model of another subject")]}
    /\ \E made \in SUBSET {<<"out">>} : cc_dirs = {<<"in">>, <<"data">>} \cup made
    /\ \E r1 \in RaceReplaces, r2 \in RaceReplaces,
          kw1 \in RaceKwargs, kw2 \in RaceKwargs :
          cc_calls = <<NewCall(<<"out">>, r1, {}, kw1),
                       NewCall(<<"out">>, r2, {}, kw2)>>

InitRace == RaceInit /\ RraIdle /\ StoIdle /\ WtIdle /\ ExIdle

SpecRace == InitRace /\ [][CcNext]_vars

\* either program, on setup documents that lack an element or hold one twice
InitLookup ==
    \/ RraInitAnySetup /\ StoIdle /\ WtIdle /\ CcIdle /\ ExIdle
    \/ CcInit /\ RraIdle /\ StoIdle /\ WtIdle /\ ExIdle

LookupNext == RraNext \/ CcNext

SpecLookup == InitLookup /\ [][LookupNext]_vars


(***************************************************************************)
(* perimysium/experiment.py: experiment, static_optimization_experiment    *)
(*                                                                         *)
(* ex_dest is the directory parent_dir/name: whether it exists, the lines  *)
(* of its README.txt and the names of its other files.  The functions      *)
(* differ in the first README line, in the keys they handle and in the     *)
(* function of dataman they call; dataman.copy_cmc_inputs and              *)
(* dataman.copy_so_inputs are taken by their outcome: they raise, or the   *)
(* copies they report are in the directory.                                *)
(***************************************************************************)
\* the keys of cmc_input / so_input besides 'setup'
InputKeys(tool) ==
    IF tool = "cmc" THEN {"model", "control_constraints", "tasks", "actuators"}
    ELSE {"model", "actuators"}

\* the keys for which the setup file names no file (exp_fpaths[key] None)
NoFileKeys == {"control_constraints"}

\* lines 73-77 and 252-256
ExDoNotCopy(tool, minimal) ==
    IF ~minimal THEN {}
    ELSE IF tool = "cmc"
    THEN {"desired_kinematics", "force_plates", "extload_kinematics"}
    ELSE {"coordinates_file", "force_plates", "extload_kinematics"}

\* the files the called dataman function leaves in the directory
Copies(tool, minimal) ==
    ({"setup", "external_loads"} \cup (InputKeys(tool) \ NoFileKeys)
        \cup (IF tool = "cmc"
              THEN {"desired_kinematics", "force_plates", "extload_kinematics"}
              ELSE {"coordinates_file", "force_plates", "extload_kinematics"}))
        \ ExDoNotCopy(tool, minimal)

OldDirectories ==
    {[exists |-> TRUE, readme |-> <<>>, files |-> {}],
     [exists |-> TRUE, readme |-> <<"an earlier experiment">>,
      files |-> {"setup", "model", "notes"}]}

ExInit ==
    /\ ex_dest \in {NoDirectory} \cup OldDirectories
    /\ \E tool \in {"cmc", "so"}, overwrite \in BOOLEAN, minimal \in BOOLEAN,
          edited \in SUBSET {"model", "actuators"} :
          ex_call = ExCall("check", tool, overwrite, minimal, edited, ex_dest)

ExRaise(e) == ex_call' = [ex_call EXCEPT !.pc = "raised", !.exc = e]

ExGoto(at) == ex_call' = [ex_call EXCEPT !.pc = at]

\* the directory taken over whatever overwrite says
ExCheckNoGuard ==
    /\ ex_call.pc = "check"
    /\ ex_dest' = [ex_dest EXCEPT !.exists = TRUE]
    /\ ExGoto("readme")
    /\ UNCHANGED <<rraVars, stoVars, wtVars, ccVars>>

\* lines 52-59 and 230-237
ExCheck ==
    /\ ex_call.pc = "check"
    /\ IF ex_dest.exists
       THEN IF ~ex_call.overwrite
            THEN ExRaise("Exception: Directory exists; not overwriting.")
                 /\ UNCHANGED ex_dest
            ELSE ExGoto("readme") /\ UNCHANGED ex_dest
       ELSE ExGoto("readme") /\ ex_dest' = [ex_dest EXCEPT !.exists = TRUE]
    /\ UNCHANGED <<rraVars, stoVars, wtVars, ccVars>>

\* lines 63-67 and 241-246: README.txt opened for appending, three lines
ExReadme ==
    /\ ex_call.pc = "readme"
    /\ ex_dest' = [ex_dest EXCEPT !.readme =
                      @ \o <<IF ex_call.tool = "cmc"
                             THEN "OpenSim CMC experiment"
                             ELSE "OpenSim Static Optimization experiment",
                             "These files were generated on/at",
                             "based on">>]
    /\ ExGoto("copy")
    /\ UNCHANGED <<rraVars, stoVars, wtVars, ccVars>>

\* lines 73-79 and 252-258
ExCopyInputs ==
    /\ ex_call.pc = "copy"
    /\ \/ ExRaise("raised by dataman") /\ UNCHANGED ex_dest
       \/ /\ ex_dest' = [ex_dest EXCEPT !.files =
                            @ \cup Copies(ex_call.tool, ex_call.minimal)]
          /\ ExGoto("fcn")
    /\ UNCHANGED <<rraVars, stoVars, wtVars, ccVars>>

\* lines 83-105 and 262-282: fcn is called once and edits some of the copies
ExCallFcn ==
    /\ ex_call.pc = "fcn"
    /\ ex_call' = [ex_call EXCEPT !.fcn_calls = @ + 1, !.pc = "minimal"]
    /\ UNCHANGED <<ex_dest, rraVars, stoVars, wtVars, ccVars>>

\* the copies deleted because filecmp.cmp finds them unchanged
Unchanged(c) == (InputKeys(c.tool) \ NoFileKeys) \ c.edited

RECURSIVE ChangedLines(_)
ChangedLines(keys) ==
    IF keys = {} THEN <<>>
    ELSE LET k == CHOOSE x \in keys : TRUE
         IN  <<k \o " -->">> \o ChangedLines(keys \ {k})

\* lines 110-174 and 287-348 (minimal), 176-177 and 350-351
ExFinish ==
    /\ ex_call.pc = "minimal"
    /\ ex_dest' =
          IF ex_call.minimal
          THEN [ex_dest EXCEPT
                   !.files = @ \ Unchanged(ex_call),
                   !.readme = @ \o <<"The files that have changed:">>
                                \o ChangedLines((InputKeys(ex_call.tool) \ NoFileKeys)
                                                   \cap ex_call.edited)
                                \o <<"">>]
          ELSE [ex_dest EXCEPT !.readme = @ \o <<"">>]
    /\ ExGoto("done")
    /\ UNCHANGED <<rraVars, stoVars, wtVars, ccVars>>

ExNext == ExCheck \/ ExReadme \/ ExCopyInputs \/ ExCallFcn \/ ExFinish

InitEx == ExInit /\ RraIdle /\ StoIdle /\ WtIdle /\ CcIdle

SpecEx == InitEx /\ [][ExNext]_vars


(***************************************************************************)
(* Properties                                                              *)
(***************************************************************************)
\* the columns of the table read last whose name is a tracked task
TrackedColumns ==
    {pErr.names[i] : i \in {j \in 1..Len(pErr.names) : InSeq(task_names, pErr.names[j])}}

\* lo <= e <= hi for the peak error e of column c of the table read last,
\* in the units the claim states: 100 * peak for a pelvis_t column, the peak
\* in degrees (peak * 180 / pi) otherwise; peak counts thousandths
PeakWithin(c, lo, hi) ==
    LET peak == PeakAbs(pErr, c)
    IN  IF StartsWith(c, "pelvis_t")
        THEN /\ lo[1] * 1000 <= 100 * peak * lo[2]
             /\ 100 * peak * hi[2] <= hi[1] * 1000
        ELSE /\ lo[1] * 1000 * 71 <= 4068 * peak * lo[2]
             /\ 4068 * peak * hi[2] <= hi[1] * 1000 * 71

ClaimedWeight(old, e, lo, hi) ==
    LET m == RMul(RAdd(lo, hi), <<1, 2>>)
        above == RSub(e, m)
        below == RNeg(RAbs(RSub(m, e)))
        half == <<1, 2>>
    IN  IF RLess(hi, e) THEN RAdd(old, RMul(RMul(half, above), old))
        ELSE IF RLess(e, lo) THEN RAdd(old, RMul(RMul(half, below), old))
        ELSE old

\* C2: one pass of the for loop over a tracked column with peak error e
\* outside [lo, hi] leaves its weight at old + 0.5 * (e - m) * old when
\* e > hi and at old + 0.5 * (-|m - e|) * old when e < lo; with e = 2.0,
\* thresholds (1.0, 1.5) and old = 10.0 the new weight is 13.75.
C2_WeightUpdate ==
    [][(pc = "for" /\ icol' = icol + 1 /\ InSeq(task_names, pErr.names[icol + 1])) =>
        LET c == pErr.names[icol + 1]
            i == IndexOf(task_names, c)
            e == ThisErr(pErr, c)
        IN  /\ OutOfRange(e, min_max_err, max_max_err) =>
                task_weights'[i] =
                    ClaimedWeight(task_weights[i], e, min_max_err, max_max_err)
            /\ (/\ e = <<2, 1>>
                /\ min_max_err = <<1, 1>>
                /\ max_max_err = <<3, 2>>
                /\ task_weights[i] = <<10, 1>>) =>
                    task_weights'[i] = <<55, 4>>]_vars

\* the example of C2 has happened, and a column below the range was updated
C2_Witness ==
    /\ pc = "for"
    /\ icol = Len(pErr.names)
    /\ min_max_err = <<1, 1>>
    /\ max_max_err = <<3, 2>>
    /\ {"pelvis_tx", "arm_flex_r"} \subseteq TrackedColumns
    /\ ThisErr(pErr, "pelvis_tx") = <<2, 1>>
    /\ task_weights[IndexOf(task_names, "pelvis_tx")] = <<55, 4>>
    /\ RLess(ThisErr(pErr, "arm_flex_r"), min_max_err)
    /\ RLess(task_weights[IndexOf(task_names, "arm_flex_r")], <<5, 2>>)

\* the side effects since the error table was last read
RECURSIVE SinceLastRead(_)
SinceLastRead(log) ==
    IF log = <<>> \/ log[Len(log)] = "read_pErr" THEN <<>>
    ELSE Append(SinceLastRead(SubSeq(log, 1, Len(log) - 1)), log[Len(log)])

\* C3: when the for loop of an iteration is over, every tracked column that
\* the table read last puts out of range (above or below) has its new
\* weight in memory, computed from that table, and nothing has been written
\* or run since the table was read; when the tool is about to be run, the
\* tasks file holds all these weights and the tool has not run in between.
C3_AllUpdatesBeforeRerun ==
    /\ (pc = "for" /\ icol = Len(pErr.names)) =>
          /\ SinceLastRead(effects) = <<>>
          /\ \A c \in TrackedColumns :
                LET e == ThisErr(pErr, c)
                IN  OutOfRange(e, min_max_err, max_max_err) =>
                       task_weights[IndexOf(task_names, c)] =
                           ClaimedWeight(FileWeight(tasks_file, c), e,
                                         min_max_err, max_max_err)
    /\ pc = "run_rra" =>
          /\ SinceLastRead(effects) = <<"write_tasks">>
          /\ \A c \in TrackedColumns :
                FileWeight(tasks_file, c) =
                    FloatOfText(FormatF(task_weights[IndexOf(task_names, c)]))

\* one column above the range and one below, both tracked, tool about to run
C3_Witness ==
    /\ pc = "run_rra"
    /\ {"pelvis_tx", "arm_flex_r"} \subseteq TrackedColumns
    /\ RLess(max_max_err, ThisErr(pErr, "pelvis_tx"))
    /\ RLess(ThisErr(pErr, "arm_flex_r"), min_max_err)


\* C4 (as stated): after the tool has run inside the loop, the function
\* re-reads the tracked tasks' weights from the tasks file into task_weights
\* (one entry per name of task_names, in that order) and goes on to
\* re-evaluate the loop condition.
C4_AsStated ==
    [][pc = "update_error" =>
        /\ task_weights' = TaskWeightsFromFile(tasks_file, task_names).weights
        /\ exc' /= "TypeError"]_vars

\* C5 (as stated): an iteration that is over has, since the table that
\* started it was read, overwritten the tasks file, run the tool, written
\* the plot and read the regenerated error table, in this order.
C5_AsStated ==
    (iter_count >= 1 /\ pc \in {"while", "done", "raised"}) =>
        /\ Len(effects) >= 5
        /\ SubSeq(effects, Len(effects) - 4, Len(effects)) =
               <<"read_pErr", "write_tasks", "rra", "plot", "read_pErr">>

\* the pErr file as the tool left it puts some tracked column out of range
FileStillOutOfRange ==
    /\ pErr_file.exists
    /\ LET data == Storage2Numpy(pErr_file.lines)
           table == [names |-> data.names, rows |-> data.rows]
       IN  /\ data.exc = "none"
           /\ \E j \in 1..Len(table.names) :
                /\ InSeq(task_names, table.names[j])
                /\ OutOfRange(ThisErr(table, table.names[j]),
                              min_max_err, max_max_err)

\* C6 (as stated): once the loop is entered, as long as the tool leaves some
\* tracked column out of range the function neither returns nor raises.
C6_AsStated ==
    (iter_count >= 1 /\ FileStillOutOfRange) => pc \notin {"done", "raised"}

RECURSIVE NotMatching(_, _)
NotMatching(names, regex) ==
    IF names = <<>> THEN <<>>
    ELSE IF ReMatch(regex, Head(names)) THEN NotMatching(Tail(names), regex)
    ELSE <<Head(names)>> \o NotMatching(Tail(names), regex)

\* C8 (as stated): with task_name_regex_omit given, the tracked tasks after
\* the omission are exactly the names of task_names the expression does not
\* match.
C8_AsStated ==
    [][(pc = "omit" /\ task_name_regex_omit /= NoRegex) =>
        task_names' = NotMatching(task_names, task_name_regex_omit)]_vars

\* the names of all CMC_Joint elements of a tasks file, in document order
CMCJointNames(file) == [i \in 1..Len(file) |-> file[i].name]

\* C9 (as stated): called with task_names=None, the function takes the names
\* of all CMC_Joint tasks of the tasks file as the tracked tasks and goes on
\* without raising.
C9_AsStated ==
    [][(pc = "task_names" /\ task_names = None) =>
        /\ task_names' = CMCJointNames(tasks_file)
        /\ pc' = "omit"
        /\ exc' = "none"]_vars

\* the 1-based number of the first line of sto_file that holds the sentinel
FirstSentinelRow ==
    CHOOSE k \in 1..Len(sto_file) :
        /\ HasSentinel(sto_file[k])
        /\ \A j \in 1..(k - 1) : ~HasSentinel(sto_file[j])

\* C10: for a file whose first line holding 'endheader' is row k, with a row
\* k + 1 and all later rows as wide as row k + 1, storage2numpy returns the
\* tokens of row k + 1 as the column names and exactly the rows after it, in
\* order, as the data rows; whenever it returns a table, the table is that.
C10_HeaderSkipped ==
    (sto_pc = "returned" /\ \E k \in 1..Len(sto_file) : HasSentinel(sto_file[k])) =>
        LET k == FirstSentinelRow
            n == Len(sto_file)
            wellFormed == /\ k < n
                          /\ \A j \in (k + 2)..n :
                                Len(sto_file[j]) = Len(sto_file[k + 1])
        IN  /\ wellFormed <=> sto_data.exc = "none"
            /\ sto_data.exc = "none" =>
                  /\ sto_data.names = sto_file[k + 1]
                  /\ Len(sto_data.rows) = n - (k + 1)
                  /\ \A j \in 1..(n - (k + 1)) :
                        \A c \in 1..Len(sto_file[k + 1]) :
                            sto_data.rows[j][c] = ToFloat(sto_file[k + 1 + j][c])

\* a header line, then the sentinel, the names and a data row
C10_Witness ==
    /\ sto_pc = "returned"
    /\ sto_data.exc = "none"
    /\ Len(sto_file) = 4
    /\ HasSentinel(sto_file[2])
    /\ ~HasSentinel(sto_file[1])
    /\ sto_data.names = NamesLine
    /\ Len(sto_data.rows) = 1
    /\ sto_data.rows[1][2] = -20


\* C11: storage2numpy on a file none of whose lines holds 'endheader' ends in
\* an exception: it never returns a table.
C11_NoSentinelRaises ==
    (sto_pc = "returned" /\ \A k \in 1..Len(sto_file) : ~HasSentinel(sto_file[k])) =>
        /\ sto_data.exc = "UnboundLocalError"
        /\ sto_data.names = <<>>
        /\ sto_data.rows = <<>>

\* a file that is a well-formed table but for the missing sentinel line
C11_Witness ==
    /\ sto_pc = "returned"
    /\ sto_file = <<HeaderLine, NamesLine, <<"0.000", "0.002", "0.030">> >>
    /\ sto_data.exc = "UnboundLocalError"


\* the steps of one iteration of the loop, up to the re-read of line 231
InIteration == pc \in {"for", "run_rra", "plot"}

\* C18: in an iteration, a tracked column whose peak error lies within
\* [min_max_err, max_max_err] keeps its in-memory weight, and so does every
\* task whose name is not a column of the error table; a weight that does
\* change is that of a tracked column whose peak error is out of range.
C18_InRangeWeightsKept ==
    [][InIteration =>
        /\ Len(task_weights') = Len(task_weights)
        /\ \A i \in 1..Len(task_names) :
              LET name == task_names[i]
              IN  /\ (name \in TrackedColumns
                         /\ PeakWithin(name, min_max_err, max_max_err)) =>
                        task_weights'[i] = task_weights[i]
                  /\ ~InSeq(pErr.names, name) =>
                        task_weights'[i] = task_weights[i]
                  /\ task_weights'[i] /= task_weights[i] =>
                        /\ name = pErr.names[icol + 1]
                        /\ ~PeakWithin(name, min_max_err, max_max_err)]_vars

\* the for loop is through: pelvis_tx was out of range and has a new weight,
\* arm_flex_r is in range and arm_flex_l is no column, both as in the file
C18_Witness ==
    /\ pc = "for"
    /\ icol = Len(pErr.names)
    /\ task_names = <<"pelvis_tx", "arm_flex_r", "arm_flex_l">>
    /\ pErr.names = NamesLine
    /\ ~PeakWithin("pelvis_tx", min_max_err, max_max_err)
    /\ PeakWithin("arm_flex_r", min_max_err, max_max_err)
    /\ task_weights[1] /= FileWeight(tasks_file, "pelvis_tx")
    /\ task_weights[2] = FileWeight(tasks_file, "arm_flex_r")
    /\ task_weights[3] = FileWeight(tasks_file, "arm_flex_l")


\* the loop test of line 186
LoopCondition == Greater(maxerr, max_max_err) \/ RLess(minerr, min_max_err)

\* C19: before the loop the tool is invoked exactly when the pErr file does
\* not exist (line 179); when the file exists and every tracked column of it
\* is within range, the loop test is false right after the table is read and
\* the function returns after zero iterations, the tool not invoked, the
\* tasks file not written and the stored weights as they were.
C19_NoToolNoWriteWhenInRange ==
    /\ [][/\ pc = "initial_run" =>
                IF pErr_file.exists
                THEN effects' = effects /\ pErr_file' = pErr_file
                ELSE effects' = Append(effects, "rra")
          /\ pc \in {"setup", "task_names", "omit", "results", "read_weights",
                    "read_pErr"} =>
                /\ SelectSeq(effects', LAMBDA e : e /= "read_pErr") =
                   SelectSeq(effects, LAMBDA e : e /= "read_pErr")
                /\ pErr_file' = pErr_file
                /\ tasks_file' = tasks_file
          /\ (pc = "while" /\ iter_count = 0
                /\ \A c \in TrackedColumns :
                      PeakWithin(c, min_max_err, max_max_err)) =>
                /\ pc' = "done"
                /\ UNCHANGED <<effects, tasks_file, pErr_file, task_weights,
                               iter_count>>]_vars
    /\ [](pc = "done" =>
            /\ iter_count = 0
            /\ effects \in {<<"read_pErr">>, <<"rra", "read_pErr">>}
            /\ tasks_file \in TasksFiles
            /\ \A i \in 1..Len(task_names) :
                  task_weights[i] = FileWeight(tasks_file, task_names[i]))

\* returned, the pErr file there from the start, two tracked columns in range
C19_Witness ==
    /\ pc = "done"
    /\ iter_count = 0
    /\ effects = <<"read_pErr">>
    /\ {"pelvis_tx", "arm_flex_r"} \subseteq TrackedColumns
    /\ \A c \in TrackedColumns : PeakWithin(c, min_max_err, max_max_err)
    /\ tasks_file \in TasksFiles


UnexpectedErrorValue == "Exception: Unexpected error value."

\* C20: the else branch of lines 207-208 is never taken: the function never
\* raises 'Unexpected error value.', and for every column the for loop is
\* about to examine, the test of line 202 being true means that one of the
\* two comparisons of lines 203 and 205 selects its branch.
C20_ElseBranchUnreachable ==
    /\ exc /= UnexpectedErrorValue
    /\ (pc = "for" /\ icol < Len(pErr.names)) =>
          LET e == ThisErr(pErr, pErr.names[icol + 1])
          IN  (InSeq(task_names, pErr.names[icol + 1])
                  /\ OutOfRange(e, min_max_err, max_max_err)) =>
                 /\ Increment(e, min_max_err, max_max_err).exc = "none"
                 /\ RLess(max_max_err, e) \/ RLess(e, min_max_err)

\* the for loop is through without an exception, having taken the branch of
\* line 203 for pelvis_tx, that of 205 for arm_flex_r
C20_Witness ==
    /\ pc = "for"
    /\ icol = Len(pErr.names)
    /\ exc = "none"
    /\ {"pelvis_tx", "arm_flex_r"} \subseteq TrackedColumns
    /\ RLess(max_max_err, ThisErr(pErr, "pelvis_tx"))
    /\ RLess(ThisErr(pErr, "arm_flex_r"), min_max_err)
    /\ RLess(FileWeight(tasks_file, "pelvis_tx"),
             task_weights[IndexOf(task_names, "pelvis_tx")])
    /\ RLess(task_weights[IndexOf(task_names, "arm_flex_r")],
             FileWeight(tasks_file, "arm_flex_r"))


\* the task elements of a tasks file: the CMC_Joint elements of <objects>
IsTaskOf(file, name) ==
    \E i \in 1..Len(file) : file[i].section = "objects" /\ file[i].name = name

\* C15: after write_task_weights_to_file(w, f, names, do_round) the weight
\* text of each task element named in names is the '%f' rendering (six
\* decimals, rounded) of its entry in w, the '%i' rendering (integer part)
\* when do_round; task_weights_from_file(f, names) then raises KeyError when
\* a name is no CMC_Joint of the file and otherwise returns, at each index i
\* whose name is a task, the number that written text denotes, in whatever
\* order the elements stand in the file.
C15_RoundTrip ==
    /\ wt_pc \in {"read", "done"} =>
          \A k \in 1..Len(wt_file) :
              (wt_file[k].section = "objects"
                  /\ InSeq(wt_task_names, wt_file[k].name)) =>
                 LET w == wt_task_weights[IndexOf(wt_task_names, wt_file[k].name)]
                     text == wt_file[k].weight
                 IN  IF wt_do_round
                     THEN /\ text % 1000000 = 0
                          /\ Abs(text) * w[2] <= Abs(w[1]) * 1000000
                          /\ Abs(w[1]) * 1000000 < (Abs(text) + 1000000) * w[2]
                          /\ text * w[1] >= 0
                     ELSE \* |text - w| <= half a millionth
                          2 * Abs(text * w[2] - w[1] * 1000000) <= w[2]
    /\ wt_pc = "done" =>
          /\ wt_read.exc = "KeyError" <=>
                \E i \in 1..Len(wt_task_names) : ~HasTask(wt_file, wt_task_names[i])
          /\ wt_read.exc = "none" =>
                /\ Len(wt_read.weights) = Len(wt_task_names)
                /\ \A i \in 1..Len(wt_task_names) :
                      IsTaskOf(wt_file, wt_task_names[i]) =>
                         \E k \in 1..Len(wt_file) :
                             /\ wt_file[k].name = wt_task_names[i]
                             /\ wt_file[k].section = "objects"
                             /\ wt_read.weights[i] =
                                    Rat(wt_file[k].weight, 1000000)

\* 13.75 and 1/3 written with '%f' to a file that lists arm_flex_r before
\* pelvis_tx, and read back as 13.75 and 0.333333
C15_Witness ==
    /\ wt_pc = "done"
    /\ ~wt_do_round
    /\ wt_task_names = <<"pelvis_tx", "arm_flex_r">>
    /\ wt_task_weights = <<Rat(55, 4), Rat(1, 3)>>
    /\ wt_file[1].name = "arm_flex_r"
    /\ wt_file[1].weight = 333333
    /\ wt_file[3].weight = 13750000
    /\ wt_read.exc = "none"
    /\ wt_read.weights = <<Rat(55, 4), Rat(333333, 1000000)>>


\* the candidates of C12 for a reference text found in the file at
\* referring, in the order the claim gives them
Candidates(text, referring, replace) ==
    LET substituted == ReplaceAll(text, replace)
        forward == SlashForward(substituted)
        dir == DirName(referring)
    IN  <<text, substituted, forward,
          NormPath(Join(dir, forward)),
          NormPath(Join(dir, LStrip(forward))),
          NormPath(Join(dir, RStrip(forward)))>>

\* C12: valid_path, for a reference that is not blank, returns the first of
\* these that exists: the literal path, the path after the replace
\* substitutions, that path with backslashes made forward slashes, and that
\* path joined to the directory of the referring file as is, left-stripped
\* and right-stripped; it raises ('Paths ... do not exist.') exactly when
\* none of them exists.
C12_FirstExistingCandidate ==
    [][\A p \in DOMAIN cc_calls :
        LET c == cc_calls[p]
            key == ResolveOrder[c.i]
            ext == key \in ExtLoadsKeys
            xml == IF ext THEN c.extloads ELSE c.setup
            referring == IF ext THEN c.old["external_loads"] ELSE c.cmc_setup_fpath
            found == FindAll(xml, TagOf(key))
        IN  (c.pc = "valid_path" /\ cc_calls'[p] /= c /\ found /= <<>>
                /\ Strip(xml[found[1]].text) /= <<>>) =>
               LET cands == Candidates(xml[found[1]].text, referring, c.replace)
                   hits == SelectSeq(cands, LAMBDA q : Exists(cc_files, cc_dirs, q))
               IN  IF hits = <<>>
                   THEN /\ cc_calls'[p].pc = "raised"
                        /\ cc_calls'[p].exc = "Exception: Paths do not exist."
                   ELSE /\ cc_calls'[p].old[key] = hits[1]
                        /\ cc_calls'[p].exc /= "Exception: Paths do not exist."]_vars

\* a call that found its model by the last candidate (in/m for 'm ') and
\* its force plate data by the left-stripped one (data/f for ' f')
C12_Witness ==
    \E p \in DOMAIN cc_calls :
        LET c == cc_calls[p]
        IN  /\ c.pc = "makedirs"
            /\ c.setup[FindAll(c.setup, "model_file")[1]].text = <<"m", " ">>
            /\ c.old["model"] = <<"in", "/", "m">>
            /\ c.extloads[FindAll(c.extloads, "datafile")[1]].text = <<" ", "f">>
            /\ c.old["force_plates"] = <<"data", "/", "f">>
            /\ c.old["external_loads"] = <<"data", "/", "ext.xml">>


\* the text of the element for key in the document a finished call wrote
WrittenRef(c, key) ==
    LET doc == ContentAt(cc_files,
                         IF key \in ExtLoadsKeys
                         THEN c.new_fpaths["external_loads"]
                         ELSE c.new_fpaths["setup"])
    IN  doc[FindAll(doc, TagOf(key))[1]].text

\* the files of a directory
FilesIn(dir) == {f \in cc_files : DirName(f.path) = NormPath(dir)}

\* C13: after copy_cmc_inputs returns, for every role whose reference
\* resolved to a file: if the role is not in do_not_copy, the element for
\* the role in the written setup (or external loads) document holds the
\* name given by the caller, else the basename of the original, and a file
\* of that name is in destination (for a copied role, with the content of
\* the original); if the role is in do_not_copy, new_fpaths has no entry
\* for it, destination holds no copy of the original made for it, and the
\* element holds the path of the original relative to destination.
C13_ReferencesRewritten ==
    \A p \in DOMAIN cc_calls :
        LET c == cc_calls[p]
        IN  c.pc = "done" =>
              \A key \in Keys :
                 c.old[key] /= None =>
                    IF key \notin c.do_not_copy
                    THEN LET name == IF c.kwargs[key] /= None
                                     THEN c.kwargs[key]
                                     ELSE BaseName(c.old[key])
                         IN  /\ WrittenRef(c, key) = name
                             /\ \E f \in FilesIn(c.destination) :
                                   /\ BaseName(f.path) = name
                                   /\ key /= "external_loads" =>
                                         f.content = ContentAt(cc_files, c.old[key])
                                   /\ c.new_fpaths[key] = Join(c.destination, name)
                    ELSE /\ c.new_fpaths[key] = None
                         /\ WrittenRef(c, key) = RelPath(c.old[key], c.destination)
                         /\ \A f \in FilesIn(c.destination) :
                               f.content = ContentAt(cc_files, c.old[key]) =>
                                  \E other \in Keys \ c.do_not_copy :
                                     /\ c.old[other] = c.old[key]
                                     /\ f.path = c.new_fpaths[other]

\* a finished call that copied the model under a new name and left the
\* kinematics, in do_not_copy, where they are
C13_Witness ==
    \E p \in DOMAIN cc_calls :
        LET c == cc_calls[p]
        IN  /\ c.pc = "done"
            /\ c.destination = <<"out">>
            /\ c.do_not_copy = {"desired_kinematics", "force_plates",
                                "extload_kinematics"}
            /\ WrittenRef(c, "model") = <<"m2">>
            /\ IsFile(cc_files, <<"out", "/", "m2">>)
            /\ WrittenRef(c, "desired_kinematics") = <<"..", "/", "data", "/", "k">>
            /\ WrittenRef(c, "tasks") = <<"t">>
            /\ IsFile(cc_files, <<"out", "/", "t">>)
            /\ ~IsFile(cc_files, <<"out", "/", "k">>)


\* C14: for a role that is in do_not_copy and is also given a new file name
\* as keyword argument, at no point of the call is there a file of the new
\* name in destination, new_fpaths[role] stays None, and when the call has
\* returned the role's reference is the path of the original relative to
\* destination, not the new name.
C14_DoNotCopyOverNewName ==
    \A p \in DOMAIN cc_calls :
        LET c == cc_calls[p]
        IN  \A key \in Keys :
               (key \in c.do_not_copy /\ c.kwargs[key] /= None) =>
                  /\ ~IsFile(cc_files, Join(c.destination, c.kwargs[key]))
                  /\ c.new_fpaths[key] = None
                  /\ (c.pc = "done" /\ c.old[key] /= None) =>
                        /\ WrittenRef(c, key) = RelPath(c.old[key], c.destination)
                        /\ WrittenRef(c, key) /= c.kwargs[key]

\* a finished call given do_not_copy=['model'] and model='m2'
C14_Witness ==
    \E p \in DOMAIN cc_calls :
        LET c == cc_calls[p]
        IN  /\ c.pc = "done"
            /\ c.do_not_copy = {"model"}
            /\ c.kwargs["model"] = <<"m2">>
            /\ c.old["model"] = <<"in", "/", "m">>
            /\ c.destination = <<"out">>
            /\ WrittenRef(c, "model") = <<"..", "/", "in", "/", "m">>
            /\ ~IsFile(cc_files, <<"out", "/", "m2">>)
            /\ c.new_fpaths["model"] = None


\* the text an edit gives the reference of key (edit_field)
EditedText(c, key) ==
    IF key \in c.do_not_copy THEN RelPath(c.old[key], c.destination)
    ELSE IF c.kwargs[key] /= None THEN c.kwargs[key]
    ELSE BaseName(c.old[key])

\* xml2 is xml with the text of its first element of the tag set to value
\* and nothing else changed
FirstOverwritten(xml, xml2, tag, value) ==
    LET found == FindAll(xml, tag)
    IN  /\ Len(xml2) = Len(xml)
        /\ xml2[found[1]] = El(tag, value)
        /\ \A k \in 2..Len(found) : xml2[found[k]] = xml[found[k]]

\* C16: a look-up of a field by tag in a document that has no element of
\* the tag raises IndexError, in select_rra_task_weights (task_set_file,
\* results_directory, RRATool) and in copy_cmc_inputs (valid_path,
\* results_directory, edit_field); with one element or several, no
\* IndexError is raised and the first is the one read or overwritten.
C16_MissingTagRaises ==
    [][/\ pc = "setup" =>
             LET found == FindAll(rra_setup, "task_set_file")
             IN  IF found = <<>>
                 THEN pc' = "raised" /\ exc' = "IndexError"
                 ELSE /\ exc' = "none"
                      /\ tasks_fpath' = Strip(rra_setup[found[1]].text)
       /\ pc = "results" =>
             LET resdir == FindAll(rra_setup, "results_directory")
                 rratool == FindAll(rra_setup, "RRATool")
             IN  IF resdir = <<>> \/ rratool = <<>>
                 THEN pc' = "raised" /\ exc' = "IndexError"
                 ELSE /\ exc' = "none"
                      /\ pErr_fname' = rra_setup[rratool[1]].text \o <<"_pErr.sto">>
       /\ \A p \in DOMAIN cc_calls :
             LET c == cc_calls[p]
                 d == cc_calls'[p]
             IN  /\ (c.pc = "valid_path" /\ d /= c) =>
                       LET key == ResolveOrder[c.i]
                           ext == key \in ExtLoadsKeys
                           xml == IF ext THEN c.extloads ELSE c.setup
                           found == FindAll(xml, TagOf(key))
                       IN  IF found = <<>>
                           THEN d.pc = "raised" /\ d.exc = "IndexError"
                           ELSE /\ d.exc /= "IndexError"
                                /\ d.old[key] =
                                      ValidPath(cc_files, cc_dirs,
                                                IF ext THEN c.old["external_loads"]
                                                ELSE c.cmc_setup_fpath,
                                                <<xml[found[1]]>>, TagOf(key),
                                                c.replace).path
                 /\ (c.pc = "edit" /\ d /= c) =>
                       IF FindAll(c.setup, "results_directory") = <<>>
                       THEN d.pc = "raised" /\ d.exc = "IndexError"
                       ELSE /\ d.exc = "none"
                            /\ FirstOverwritten(c.setup, d.setup,
                                                "results_directory", <<"results">>)
                            /\ \A key \in Keys :
                                  c.old[key] /= None =>
                                     FirstOverwritten(
                                        IF key \in ExtLoadsKeys THEN c.extloads ELSE c.setup,
                                        IF key \in ExtLoadsKeys THEN d.extloads ELSE d.setup,
                                        TagOf(key), EditedText(c, key))
                 /\ \A key \in Keys :
                       c.old[key] /= None =>
                          EditField(<<El("results_directory", <<>>)>>, TagOf(key),
                                    key, c.old, c.do_not_copy, c.kwargs,
                                    c.destination).exc = "IndexError"]_vars

\* a call of copy_cmc_inputs on a setup document without results_directory:
\* IndexError after the files were copied
C16_Witness ==
    \E p \in DOMAIN cc_calls :
        LET c == cc_calls[p]
        IN  /\ c.pc = "raised"
            /\ c.exc = "IndexError"
            /\ c.setup = SetupDocNoResults
            /\ c.old["model"] = <<"in", "/", "m">>
            /\ c.destination = <<"out">>
            /\ IsFile(cc_files, <<"out", "/", "m">>)


NotOverwriting == "Exception: Directory exists; not overwriting."

\* C17: experiment and static_optimization_experiment, when parent_dir/name
\* exists and overwrite is False, raise with the directory as it was: no
\* line appended to README.txt, no file copied, fcn not called; when it
\* exists and overwrite is True the call goes on and, once it is through,
\* has appended its lines to the README.txt that was there, written the
\* setup and external loads files into the directory and called fcn once.
C17_NoOverwriteRaisesFirst ==
    LET before == ex_call.before
    IN  /\ ex_call.exc = NotOverwriting => (before.exists /\ ~ex_call.overwrite)
        /\ (before.exists /\ ~ex_call.overwrite) =>
              /\ ex_call.pc \in {"check", "raised"}
              /\ ex_call.pc = "raised" => ex_call.exc = NotOverwriting
              /\ ex_dest = before
              /\ ex_call.fcn_calls = 0
        /\ (before.exists /\ ex_call.overwrite) =>
              /\ ex_call.exc /= NotOverwriting
              /\ ex_call.pc /= "check" =>
                    SubSeq(ex_dest.readme, 1, Len(before.readme)) = before.readme
              /\ ex_call.pc = "done" =>
                    /\ Len(ex_dest.readme) >= Len(before.readme) + 4
                    /\ ex_dest.readme[Len(before.readme) + 1] \in
                          {"OpenSim CMC experiment",
                           "OpenSim Static Optimization experiment"}
                    /\ {"setup", "external_loads"} \subseteq ex_dest.files
                    /\ ex_call.fcn_calls = 1

\* experiment() has raised on a directory that holds an earlier experiment
C17_Witness ==
    /\ ex_call.pc = "raised"
    /\ ex_call.exc = NotOverwriting
    /\ ex_call.tool = "cmc"
    /\ ~ex_call.overwrite
    /\ ex_dest.exists
    /\ ex_dest.readme = <<"an earlier experiment">>
    /\ ex_dest.files = {"setup", "model", "notes"}


Positive(w) == RLess(<<0, 1>>, w)

AllWeightsPositive == \A i \in 1..Len(task_weights) : Positive(task_weights[i])

Rewritten(before, after) ==
    {k \in 1..Len(before) : after[k].weight /= before[k].weight}

\* C22: write_task_weights_to_file leaves the CMC_Joint elements of the file
\* in their places, each with its name and its section, and gives a new
\* weight text only to elements of 'objects' whose name is in task_names:
\* the weight of an element that is not named, or that is outside 'objects'
\* (a default, named or not), is after the call what it was before; reading
\* the weights back changes nothing in the file.
C22_OnlyNamedObjectsRewritten ==
    /\ [][/\ Len(wt_file') = Len(wt_file)
          /\ \A k \in 1..Len(wt_file) :
                /\ wt_file'[k].name = wt_file[k].name
                /\ wt_file'[k].section = wt_file[k].section
          /\ \A k \in Rewritten(wt_file, wt_file') :
                /\ wt_pc = "write"
                /\ wt_file[k].section = "objects"
                /\ InSeq(wt_task_names, wt_file[k].name)]_vars
    /\ [](\A k \in Rewritten(wt_before, wt_file) :
                /\ wt_before[k].section = "objects"
                /\ InSeq(wt_task_names, wt_before[k].name))

\* a call that names a task of 'objects' and the CMC_Joint of the defaults
\* has rewritten the first and left the second, and a task it did not name
C22_Witness ==
    /\ wt_pc = "read"
    /\ InSeq(wt_task_names, "default")
    /\ InSeq(wt_task_names, "pelvis_tx")
    /\ ~InSeq(wt_task_names, "arm_flex_r")
    /\ \E k \in Rewritten(wt_before, wt_file) : wt_file[k].name = "pelvis_tx"
    /\ \E k \in 1..Len(wt_file) :
          /\ wt_file[k].name = "default"
          /\ wt_file[k].section = "defaults"
          /\ wt_file[k].weight = wt_before[k].weight
          /\ Format(wt_do_round, wt_task_weights[IndexOf(wt_task_names, "default")])
                /= wt_file[k].weight
    /\ \E k \in 1..Len(wt_file) :
          /\ wt_file[k].name = "arm_flex_r"
          /\ wt_file[k].section = "objects"
          /\ wt_file[k].weight = wt_before[k].weight


\* do_not_copy holds 'setup' or 'external_loads' (line 188)
Rejected(c) == "setup" \in c.do_not_copy \/ "external_loads" \in c.do_not_copy

CannotContain == "Exception: do_not_copy cannot contain setup or external_loads."

\* C23: a call of copy_cmc_inputs whose do_not_copy holds 'setup' or
\* 'external_loads' raises at its first step and does nothing else: it is
\* only ever at its first line or ended by that exception, it has parsed no
\* document and resolved no path, and no step of it creates a directory or
\* adds, removes or changes a file; no other call ends by that exception.
C23_RejectedBeforeSideEffects ==
    /\ [](\A p \in DOMAIN cc_calls :
            LET c == cc_calls[p]
            IN  /\ c.exc = CannotContain => Rejected(c)
                /\ Rejected(c) =>
                      /\ c.pc \in {"start", "raised"}
                      /\ c.pc = "raised" => c.exc = CannotContain
                      /\ c.setup = <<>>
                      /\ c.extloads = <<>>
                      /\ \A k \in Keys : c.old[k] = None
                      /\ \A k \in AllKeys : c.new_fpaths[k] = None)
    /\ [][\A p \in DOMAIN cc_calls :
            (Rejected(cc_calls[p]) /\ cc_calls'[p] /= cc_calls[p]) =>
                /\ cc_dirs' = cc_dirs
                /\ cc_files' = cc_files
                /\ cc_calls'[p].pc = "raised"]_vars

\* the call has raised for a do_not_copy that holds 'external_loads', the
\* setup file there to be read, the destination not made and nothing in it
C23_Witness ==
    \E p \in DOMAIN cc_calls :
        LET c == cc_calls[p]
        IN  /\ c.pc = "raised"
            /\ c.exc = CannotContain
            /\ c.do_not_copy = {"model", "external_loads"}
            /\ IsFile(cc_files, c.cmc_setup_fpath)
            /\ ~Exists(cc_files, cc_dirs, c.destination)
            /\ FilesIn(c.destination) = {}


\* the steps by which call p begins, comes to the destination (the test of
\* line 259 and os.makedirs) and goes from its copies to its documents
CcStep(p) ==
    \/ CcStart(p)
    \/ CcMakeDirs(p)
    \/ CcMkdir(p)
    \/ CcEditFields(p)

\* the destination holds what call p puts there: the two documents as p
\* edited them and, for every file p copied, the content of p's original
OwnBundle(p) ==
    LET c == cc_calls[p]
    IN  /\ c.pc = "done"
        /\ ContentAt(cc_files, c.new_fpaths["setup"]) = c.setup
        /\ ContentAt(cc_files, c.new_fpaths["external_loads"]) = c.extloads
        /\ \A key \in Keys \ {"external_loads"} :
              c.new_fpaths[key] /= None =>
                 ContentAt(cc_files, c.new_fpaths[key]) =
                 ContentAt(cc_files, c.old[key])

\* both calls have returned; the setup document of the destination is the one
\* p wrote, not q's, and the model it names is the copy q made of its own
\* original, not p's
MixedBundle(p, q) ==
    LET c == cc_calls[p]
        d == cc_calls[q]
    IN  /\ c.pc = "done" /\ d.pc = "done"
        /\ NormPath(c.destination) = NormPath(d.destination)
        /\ c.new_fpaths["setup"] = d.new_fpaths["setup"]
        /\ ContentAt(cc_files, c.new_fpaths["setup"]) = c.setup
        /\ c.setup /= d.setup
        /\ c.new_fpaths["model"] = d.new_fpaths["model"]
        /\ ContentAt(cc_files, c.new_fpaths["model"]) =
              ContentAt(cc_files, d.old["model"])
        /\ ContentAt(cc_files, d.old["model"]) /=
              ContentAt(cc_files, c.old["model"])

\* C24: two overlapping calls of copy_cmc_inputs on one destination are not
\* kept apart: a call that is at its first line, at the test or the making
\* of the destination, or done with its copies can take that step wherever
\* the other call is, in the middle of its copies and writes included; a
\* call that runs to its end before the other has begun leaves its own
\* bundle in the destination; and a destination that holds the setup
\* document of one call together with the model copied by the other is the
\* bundle of neither call.
C24_NoMutualExclusion ==
    /\ \A p \in DOMAIN cc_calls :
          cc_calls[p].pc \in {"start", "makedirs", "mkdir", "edit"}
             => ENABLED CcStep(p)
    /\ \A p \in DOMAIN cc_calls, q \in DOMAIN cc_calls :
          /\ (p /= q /\ cc_calls[p].pc = "done" /\ cc_calls[q].pc = "start")
                => OwnBundle(p)
          /\ (p /= q /\ MixedBundle(p, q)) => (~OwnBundle(p) /\ ~OwnBundle(q))

\* both calls have returned and the destination holds the setup document of
\* the first, which names the kinematics k2, with the model of another
\* subject, which the second copied
C24_Witness ==
    /\ MixedBundle(1, 2)
    /\ cc_calls[1].kwargs["desired_kinematics"] = <<"k2">>
    /\ cc_calls[2].kwargs = NoKwargs
    /\ ContentAt(cc_files, <<"out", "/", "m">>) = Data("model of another subject")
    /\ \E i \in 1..Len(cc_calls[1].setup) :
          /\ cc_calls[1].setup[i].tag = "desired_kinematics_file"
          /\ cc_calls[1].setup[i].text = <<"k2">>
    /\ ContentAt(cc_files, <<"out", "/", "setup.xml">>) = cc_calls[1].setup


====
